---- MODULE Spec2Model ----
(***************************************************************************)
(* Conversation memory of ComfyUI-Copilot: the session_message table, the  *)
(* summary agent and message_memory_optimize.                              *)
(***************************************************************************)
EXTENDS Integers, Sequences, FiniteSets, TLC

\* ------------------------------------------------------------- constants

\* message_memory.py:21-22
COMPRESSION_THRESHOLD == 8
KEEP_RECENT_MESSAGES == 4

\* Longest message list a caller passes in.
MaxLen == 14

\* Session ids the callers use.
SessionIds == {"s1"}

\* ---------------------------------------------------------- Python values

\* A text is a sequence of tokens; the token " " is whitespace.
None == [t |-> "None", v |-> <<>>]
Str(s) == [t |-> "str", v |-> s]

\* Truth value of an Optional[str]: None and "" are falsy.
Truthy(x) == x.t = "str" /\ x.v # <<>>

\* seq[a:b] for integers a, b (negative values count from the end).
PyIndex(n, a) == IF a < 0 THEN (IF a + n < 0 THEN 0 ELSE a + n)
                 ELSE (IF a > n THEN n ELSE a)
PySlice(seq, a, b) == SubSeq(seq, PyIndex(Len(seq), a) + 1, PyIndex(Len(seq), b))
PySliceFrom(seq, a) == PySlice(seq, a, Len(seq))

\* A strip() that strips nothing.
StripNothing(s) == s

\* str.strip(): drop leading and trailing whitespace tokens.
RECURSIVE LStrip(_)
LStrip(s) == IF s # <<>> /\ Head(s) = " " THEN LStrip(Tail(s)) ELSE s
RECURSIVE RStrip(_)
RStrip(s) == IF s # <<>> /\ s[Len(s)] = " " THEN RStrip(SubSeq(s, 1, Len(s) - 1)) ELSE s
Strip(s) == RStrip(LStrip(s))

\* --------------------------------------------------------------- messages

\* The k-th message of a conversation: user and assistant turns alternate.
Message(k) == [role |-> IF k % 2 = 1 THEN "user" ELSE "assistant",
               content |-> Str(<<"message ", ToString(k)>>)]
Conversation(n) == [k \in 1..n |-> Message(k)]
MessageLists == {Conversation(n) : n \in 0..MaxLen}

\* ------------------------------------------------- session_message table

\* json.dumps / json.loads of a message list (the messages column is Text).
JsonDumps(ms) == [k \in 1..Len(ms) |-> <<ms[k].role, ms[k].content>>]
JsonLoads(tx) == [k \in 1..Len(tx) |-> [role |-> tx[k][1], content |-> tx[k][2]]]

\* SessionMessage.to_dict
ToDict(row) == [id |-> row.id,
                messages |-> JsonLoads(row.messages),
                index |-> row.index,
                summary |-> row.summary]

\* SessionMessageManager.get_session_message: the record, or None.
HasRecord(st, sid) == sid \in DOMAIN st
GetSessionMessage(st, sid) == ToDict(st[sid])

\* SessionMessage.id of a new record: SQLite gives an INTEGER PRIMARY KEY the
\* highest id of the table plus one.
NewRecordId(st) ==
    IF DOMAIN st = {} THEN 1
    ELSE (CHOOSE i \in {st[x].id : x \in DOMAIN st} :
             \A x \in DOMAIN st : st[x].id <= i) + 1

\* The id of the record save_session_message writes: the one found, or a new one.
RecordId(st, sid) == IF sid \in DOMAIN st THEN st[sid].id ELSE NewRecordId(st)

\* save_session_message called without its index argument (the default, 0).
SaveSessionMessageDefaultIndex(st, sid, messages, index, summary) ==
    [x \in DOMAIN st \cup {sid} |->
        IF x = sid
        THEN [id |-> RecordId(st, sid),
              messages |-> JsonDumps(messages), index |-> 0, summary |-> summary]
        ELSE st[x]]

\* save_session_message that adds a new record each time instead of looking
\* for the one of the session.
SaveSessionMessageAlwaysInserts(st, sid, messages, index, summary) ==
    [x \in DOMAIN st \cup {sid} |->
        IF x = sid
        THEN [id |-> NewRecordId(st),
              messages |-> JsonDumps(messages), index |-> index, summary |-> summary]
        ELSE st[x]]

\* save_session_message that leaves the messages of an existing record alone.
SaveSessionMessageKeepsMessages(st, sid, messages, index, summary) ==
    [x \in DOMAIN st \cup {sid} |->
        IF x = sid
        THEN [id |-> RecordId(st, sid),
              messages |-> IF sid \in DOMAIN st THEN st[sid].messages ELSE JsonDumps(messages),
              index |-> index, summary |-> summary]
        ELSE st[x]]

\* SessionMessageManager.save_session_message: the table after the upsert.
SaveSessionMessage(st, sid, messages, index, summary) ==
    [x \in DOMAIN st \cup {sid} |->
        IF x = sid
        THEN [id |-> RecordId(st, sid),
              messages |-> JsonDumps(messages), index |-> index, summary |-> summary]
        ELSE st[x]]

\* save_session_message: the record id it returns.
SaveSessionMessageResult(st, sid, messages, index, summary) ==
    SaveSessionMessage(st, sid, messages, index, summary)[sid].id

\* update_summary that writes the summary and forgets the index.
UpdateSummaryKeepsIndex(st, sid, summary, index) ==
    IF sid \in DOMAIN st
    THEN [st EXCEPT ![sid].summary = summary]
    ELSE st

\* update_summary that creates the record when there is none.
UpdateSummaryCreates(st, sid, summary, index) ==
    IF sid \in DOMAIN st
    THEN [st EXCEPT ![sid].summary = summary, ![sid].index = index]
    ELSE [x \in DOMAIN st \cup {sid} |->
            IF x = sid
            THEN [id |-> NewRecordId(st), messages |-> <<>>, index |-> index, summary |-> summary]
            ELSE st[x]]

\* SessionMessageManager.update_summary: the table after the update.
UpdateSummary(st, sid, summary, index) ==
    IF sid \in DOMAIN st
    THEN [st EXCEPT ![sid].summary = summary, ![sid].index = index]
    ELSE st

\* update_summary: True when a record was found, else False.
UpdateSummaryResult(st, sid, summary, index) == sid \in DOMAIN st

\* delete_session_message that empties the table.
DeleteSessionMessageAll(st, sid) == [x \in {} |-> None]

\* SessionMessageManager.delete_session_message: the table after the delete.
DeleteSessionMessage(st, sid) == [x \in DOMAIN st \ {sid} |-> st[x]]

\* delete_session_message: True when a record was found, else False.
DeleteSessionMessageResult(st, sid) == sid \in DOMAIN st

\* ------------------------------------------------------- summary agent

\* Texts the LLM may give as a summary: real ones, the empty one, a blank one.
LlmTexts == {Str(<<"summary A">>), Str(<<"summary B">>), Str(<<>>), Str(<<" ">>)}

\* What the two LLM calls of generate_summary can do.
\*   parse: "parsed" (message.parsed is a SummaryResponse with .summary),
\*          "no_result" (message.parsed is None),
\*          "none_iter" (TypeError "'NoneType' object is not iterable"),
\*          "raise" (any other exception);
\*   create (reached after "none_iter" only): "content" (message.content, a
\*          text or None) or "raise".
NotCalled == [create |-> "n/a", content |-> None]
LlmOutcomes ==
    {[parse |-> "parsed", summary |-> tx] @@ NotCalled : tx \in LlmTexts}
    \cup {[parse |-> "no_result", summary |-> None] @@ NotCalled,
          [parse |-> "raise", summary |-> None] @@ NotCalled}
    \cup {[parse |-> "none_iter", summary |-> None, create |-> "content", content |-> c] :
             c \in {Str(<<"summary A">>), Str(<<>>), None}}
    \cup {[parse |-> "none_iter", summary |-> None, create |-> "raise", content |-> None]}

\* The LLM call ended in an exception that reaches the except branch of
\* generate_summary (summary_agent.py:140).
LlmRaised(llm) ==
    \/ llm.parse = "raise"
    \/ llm.parse = "none_iter" /\ llm.create = "raise"

\* The LLM call failed: an exception, or an empty or missing result.
LlmFailed(llm) ==
    \/ LlmRaised(llm)
    \/ llm.parse = "no_result"
    \/ llm.parse = "parsed" /\ ~Truthy(llm.summary)
    \/ llm.parse = "none_iter" /\ llm.create = "content" /\ ~Truthy(llm.content)

\* summary_agent.py:143-146, the except branch of generate_summary.
FallbackSummary(messages, previous_summary) ==
    LET fallback == <<"Conversation with ", ToString(Len(messages)), " messages">>
    IN IF Truthy(previous_summary)
       THEN Str(previous_summary.v \o <<" | ">> \o fallback)
       ELSE Str(fallback)

\* summary_agent.py:134-138, what is returned once the LLM call came back.
ReturnSummaryText(summary_text) ==
    IF Truthy(summary_text) THEN summary_text ELSE Str(<<>>)

\* generate_summary: [raises, value].
GenerateSummary(messages, previous_summary, llm) ==
    CASE LlmRaised(llm) ->
            [raises |-> FALSE, value |-> FallbackSummary(messages, previous_summary)]
      [] llm.parse = "parsed" ->
            [raises |-> FALSE, value |-> ReturnSummaryText(llm.summary)]
      [] llm.parse = "no_result" ->
            [raises |-> FALSE, value |-> ReturnSummaryText(Str(<<>>))]
      [] llm.parse = "none_iter" ->
            [raises |-> FALSE, value |-> ReturnSummaryText(llm.content)]

\* ------------------------------------------------------- message memory

\* _build_optimized_messages
BuildOptimizedMessages(summary, full_messages, index) ==
    LET recent_messages == PySliceFrom(full_messages, index)
    IN IF Truthy(summary) /\ Len(Strip(summary.v)) > 0 /\ Len(recent_messages) > 0
       THEN <<[role |-> "user",
               content |-> Str(<<"[Context from previous conversation]: ">> \o summary.v)]>>
            \o recent_messages
       ELSE recent_messages

\* The threshold test with < in place of <=.
NoCompressionNeededStrict(uncompressed_count) == uncompressed_count < COMPRESSION_THRESHOLD

\* message_memory.py:85, the test that ends the call without a compaction.
NoCompressionNeeded(uncompressed_count) == uncompressed_count <= COMPRESSION_THRESHOLD

\* The end of the compressed range taken from the wrong constant.
CompressEndIndexThreshold(messages) == Len(messages) - COMPRESSION_THRESHOLD

\* message_memory.py:95
CompressEndIndex(messages) == Len(messages) - KEEP_RECENT_MESSAGES

\* An except branch that returns an empty list.
FallBackToNothing(messages) == <<>>

\* message_memory.py:124-128, the except branch: the input list is returned.
FallBackToOriginal(messages) == messages

\* What a call leaves behind when the summarizer is not reached.
NoSummarizerCall == [calls |-> 0, sumMsgs |-> <<>>, sumPrev |-> None, sumOut |-> None]

\* The new-session branch without its save_session_message call.
OptimizeNewSessionNoSave(st, sid, messages, fault) ==
    [store |-> st, ret |-> messages, err |-> "none"] @@ NoSummarizerCall

\* message_memory.py:52-65, the branch taken when no record is stored.
OptimizeNewSession(st, sid, messages, fault) ==
    IF fault = "save"
    THEN [store |-> st, ret |-> FallBackToOriginal(messages), err |-> "save"]
         @@ NoSummarizerCall
    ELSE [store |-> SaveSessionMessage(st, sid, messages, 0, None),
          ret |-> messages, err |-> "none"] @@ NoSummarizerCall

\* message_memory.py:90-122, the compaction of messages[current_index:compress_end].
Compress(saved, sid, messages, current_index, current_summary, fault, llm) ==
    LET compress_end_index == CompressEndIndex(messages)
        messages_to_compress == PySlice(messages, current_index, compress_end_index)
        gen == GenerateSummary(messages_to_compress, current_summary, llm)
        new_summary == gen.value
        call == [calls |-> 1, sumMsgs |-> messages_to_compress,
                 sumPrev |-> current_summary,
                 sumOut |-> IF gen.raises THEN None ELSE new_summary]
    IN IF gen.raises
       THEN [store |-> saved, ret |-> FallBackToOriginal(messages), err |-> "summary"] @@ call
       ELSE IF fault = "update"
       THEN [store |-> saved, ret |-> FallBackToOriginal(messages), err |-> "update"] @@ call
       ELSE [store |-> UpdateSummary(saved, sid, new_summary, compress_end_index),
             ret |-> BuildOptimizedMessages(new_summary, messages, compress_end_index),
             err |-> "none"] @@ call

\* message_memory.py:67-122, the branch taken when a record is stored.
OptimizeExisting(st, sid, messages, fault, llm) ==
    LET record == GetSessionMessage(st, sid)
        current_index == record.index
        current_summary == record.summary
        saved == SaveSessionMessage(st, sid, messages, current_index, current_summary)
        uncompressed_count == Len(messages) - current_index
    IN IF fault = "save"
       THEN [store |-> st, ret |-> FallBackToOriginal(messages), err |-> "save"]
            @@ NoSummarizerCall
       ELSE IF NoCompressionNeeded(uncompressed_count)
       THEN [store |-> saved,
             ret |-> BuildOptimizedMessages(current_summary, messages, current_index),
             err |-> "none"] @@ NoSummarizerCall
       ELSE Compress(saved, sid, messages, current_index, current_summary, fault, llm)

\* message_memory_optimize(session_id, messages) on the table st, where
\* fault names the store call that raises ("none", "load", "save", "update")
\* and llm is what the LLM does if the summarizer is reached.
\* The result: the table afterwards, the returned list, the step whose
\* exception was caught, and the summarizer call that was made.
MessageMemoryOptimize(st, sid, messages, fault, llm) ==
    IF fault = "load"
    THEN [store |-> st, ret |-> FallBackToOriginal(messages), err |-> "load"]
         @@ NoSummarizerCall
    ELSE IF ~HasRecord(st, sid)
    THEN OptimizeNewSession(st, sid, messages, fault)
    ELSE OptimizeExisting(st, sid, messages, fault, llm)

Faults == {"none", "load", "save", "update"}

\* ------------------------------------------------------------------ state

VARIABLES
    store,    \* the session_message table: session_id -> row
    last,     \* the last call: its arguments, what it found and what it returned
    running,  \* concurrent calls of message_memory_optimize: where each one is
    written,  \* the last write of a concurrent call to the table
    sources,  \* ModelGateway.sources: the registered adapters, in registration order
    scanner,  \* LocalModelScanner: _model_cache and _cache_timestamp
    host,     \* the machine of the scanner: its clock and its model files
    download_progress,  \* model_api.download_progress: download_id -> record
    download_lock,      \* model_api.download_lock: who holds it
    transfers,          \* the download tasks and their callback objects
    clients,            \* the polls of get_download_progress in progress
    sessions,      \* LocalSessionManager: the sessions table, session_id -> last_activity
    session_lock,  \* LocalSessionManager._lock: the thread that holds it
    threads,       \* the threads that call the session manager: where each one is
    clock,         \* time.time() of the session manager's machine
    issued,        \* how many identifiers uuid.uuid4() has handed out
    agent,         \* all_in_one_invoke: the locals of the event loop
    stream         \* the events that result.stream_events() has delivered

localVars == <<scanner, host>>
downloadVars == <<download_progress, download_lock, transfers, clients>>
sessionVars == <<sessions, session_lock, threads, clock, issued>>
agentVars == <<agent, stream>>
vars == <<store, last, running, written, sources, localVars, downloadVars, sessionVars, agentVars>>

\* LocalModelScanner.__init__: no cache, no timestamp; the clock at 0 and no
\* model file on the disk.
NoScanner == [cache |-> [t |-> "None", v |-> {}], timestamp |-> [t |-> "None", v |-> 0]]
EmptyHost == [now |-> 0, files |-> [f \in {} |-> 0]]
InitLocal == scanner = NoScanner /\ host = EmptyHost

\* model_api at import: an empty registry, the lock free, no download.
InitDownloads ==
    /\ download_progress = [d \in {} |-> 0]
    /\ download_lock = ""
    /\ transfers = [d \in {} |-> 0]
    /\ clients = [c \in {} |-> 0]

\* LocalSessionManager.__init__ and _init_database: an empty table, the lock
\* free, no thread inside the manager.
InitSessions ==
    /\ sessions = [x \in {} |-> 0]
    /\ session_lock = ""
    /\ threads = [t \in {} |-> 0]
    /\ clock = 0
    /\ issued = 0

\* all_in_one_invoke before the event loop: no text, no tool call queued. The
\* text is kept by its length.
NoAgent == [current_text |-> 0, last_yield_length |-> 0, tool_results |-> [x \in {} |-> 0],
            tool_call_queue |-> <<>>, workflow_update_ext |-> FALSE]
InitAgent == agent = NoAgent /\ stream = <<>>

\* Requests that run message_memory_optimize at the same time.
Requests == {"r1", "r2"}

\* A request that is not inside message_memory_optimize.
Idle == [pc |-> "idle", sid |-> "", msgs |-> <<>>, had |-> FALSE, idx0 |-> 0,
         sum0 |-> None, newSum |-> None, ret |-> <<>>]

NoWrite == [by |-> "", kind |-> "none", stale |-> FALSE, idxBefore |-> 0, idxAfter |-> 0,
            carried |-> 0, committed |-> 0]

NoCall == [op |-> "init", sid |-> "", msgs |-> <<>>, ret |-> <<>>, err |-> "none",
           had |-> FALSE, idx0 |-> 0, sum0 |-> None, llmRaised |-> FALSE, llmFailed |-> FALSE,
           rep |-> FALSE, prevRet |-> <<>>, prevErr |-> "none", prevHad |-> FALSE]
          @@ NoSummarizerCall

Init ==
    /\ store = [x \in {} |-> None]
    /\ last = NoCall
    /\ running = [r \in Requests |-> Idle]
    /\ written = NoWrite
    /\ sources = <<"huggingface", "civitai", "local">>
    /\ InitLocal
    /\ InitDownloads
    /\ InitSessions
    /\ InitAgent

\* One call of message_memory_optimize, start to return.
Optimize(sid, messages, fault, llm) ==
    \E r \in {MessageMemoryOptimize(store, sid, messages, fault, llm)} :
    LET had == fault # "load" /\ HasRecord(store, sid)
        rep == last.op = "optimize" /\ last.sid = sid /\ last.msgs = messages
    IN /\ UNCHANGED <<running, written, sources, sessionVars, agentVars, localVars, downloadVars>>
       /\ store' = r.store
       /\ last' = [op |-> "optimize", sid |-> sid, msgs |-> messages,
                   ret |-> r.ret, err |-> r.err,
                   had |-> had,
                   idx0 |-> IF had THEN store[sid].index ELSE 0,
                   sum0 |-> IF had THEN store[sid].summary ELSE None,
                   llmRaised |-> r.calls = 1 /\ LlmRaised(llm),
                   llmFailed |-> r.calls = 1 /\ LlmFailed(llm),
                   rep |-> rep,
                   prevRet |-> IF rep THEN last.ret ELSE <<>>,
                   prevErr |-> IF rep THEN last.err ELSE "none",
                   prevHad |-> IF rep THEN last.had ELSE FALSE,
                   calls |-> r.calls, sumMsgs |-> r.sumMsgs,
                   sumPrev |-> r.sumPrev, sumOut |-> r.sumOut]

\* The summarizer is reached: a record is stored, the save succeeds and more
\* than COMPRESSION_THRESHOLD messages are uncompressed.
ReachesSummarizer(sid, messages, fault) ==
    /\ fault \in {"none", "update"}
    /\ HasRecord(store, sid)
    /\ ~NoCompressionNeeded(Len(messages) - GetSessionMessage(store, sid).index)

\* The LLM is asked only when the summarizer is reached, and update_summary
\* can fail only when it is called.
Next ==
    \E sid \in SessionIds, messages \in MessageLists, fault \in Faults :
        IF ReachesSummarizer(sid, messages, fault)
        THEN \E llm \in LlmOutcomes : Optimize(sid, messages, fault, llm)
        ELSE fault # "update" /\ Optimize(sid, messages, fault, CHOOSE llm \in LlmOutcomes : TRUE)

Spec == Init /\ [][Next]_vars

\* ------------------------------------------ concurrent calls on one session

\* Longest message list given to a concurrent call.
RaceMaxLen == 10
RaceLists == {Conversation(n) : n \in 0..RaceMaxLen}

\* What the LLM gives to a concurrent call: a text, or an exception.
RaceLlmOutcomes == {llm \in LlmOutcomes : llm.parse = "raise" \/ Truthy(llm.summary)}

\* The highest index update_summary has committed so far.
Committed(index) == IF index > written.committed THEN index ELSE written.committed

\* message_memory.py:53, get_session_message: the call reads the record.
RaceLoad(r, sid, messages) ==
    /\ running[r].pc = "idle"
    /\ running' = [running EXCEPT ![r] =
          [Idle EXCEPT !.pc = "save", !.sid = sid, !.msgs = messages,
                       !.had = HasRecord(store, sid),
                       !.idx0 = IF HasRecord(store, sid)
                                THEN GetSessionMessage(store, sid).index ELSE 0,
                       !.sum0 = IF HasRecord(store, sid)
                                THEN GetSessionMessage(store, sid).summary ELSE None]]
    /\ UNCHANGED <<store, last, written, sources, sessionVars, agentVars, localVars, downloadVars>>

\* message_memory.py:58-65 and 74-88, save_session_message with what was read,
\* and the return when no compaction is needed.
RaceSave(r) ==
    LET c == running[r]
        index == IF c.had THEN c.idx0 ELSE 0
        summary == IF c.had THEN c.sum0 ELSE None
        before == IF HasRecord(store, c.sid) THEN GetSessionMessage(store, c.sid).index ELSE 0
    IN /\ c.pc = "save"
       /\ store' = SaveSessionMessage(store, c.sid, c.msgs, index, summary)
       /\ written' = [by |-> r, kind |-> "save",
                      stale |-> HasRecord(store, c.sid) /\ (~c.had \/ before # c.idx0),
                      idxBefore |-> before,
                      idxAfter |-> GetSessionMessage(store', c.sid).index,
                      carried |-> index,
                      committed |-> written.committed]
       /\ running' = [running EXCEPT ![r] =
             IF ~c.had
             THEN [c EXCEPT !.pc = "done", !.ret = c.msgs]
             ELSE IF NoCompressionNeeded(Len(c.msgs) - c.idx0)
             THEN [c EXCEPT !.pc = "done",
                            !.ret = BuildOptimizedMessages(c.sum0, c.msgs, c.idx0)]
             ELSE [c EXCEPT !.pc = "summarize"]]
       /\ UNCHANGED <<last, sources, sessionVars, agentVars, localVars, downloadVars>>

\* message_memory.py:95-105, generate_summary on messages[index:compress_end].
RaceSummarize(r, llm) ==
    LET c == running[r]
        gen == GenerateSummary(PySlice(c.msgs, c.idx0, CompressEndIndex(c.msgs)), c.sum0, llm)
    IN /\ c.pc = "summarize"
       /\ running' = [running EXCEPT ![r] = [c EXCEPT !.pc = "update", !.newSum = gen.value]]
       /\ UNCHANGED <<store, last, written, sources, sessionVars, agentVars, localVars, downloadVars>>

\* message_memory.py:110-122, update_summary and the return of the new view.
RaceUpdate(r) ==
    LET c == running[r]
        index == CompressEndIndex(c.msgs)
        before == IF HasRecord(store, c.sid) THEN GetSessionMessage(store, c.sid).index ELSE 0
    IN /\ c.pc = "update"
       /\ store' = UpdateSummary(store, c.sid, c.newSum, index)
       /\ written' = [by |-> r, kind |-> "update",
                      stale |-> before # c.idx0,
                      idxBefore |-> before,
                      idxAfter |-> IF HasRecord(store', c.sid)
                                   THEN GetSessionMessage(store', c.sid).index ELSE 0,
                      carried |-> index,
                      committed |-> Committed(index)]
       /\ running' = [running EXCEPT ![r] =
             [c EXCEPT !.pc = "done",
                       !.ret = BuildOptimizedMessages(c.newSum, c.msgs, index)]]
       /\ UNCHANGED <<last, sources, sessionVars, agentVars, localVars, downloadVars>>

\* The call has returned; the request may call again.
RaceReturn(r) ==
    /\ running[r].pc = "done"
    /\ running' = [running EXCEPT ![r] = Idle]
    /\ UNCHANGED <<store, last, written, sources, sessionVars, agentVars, localVars, downloadVars>>

RaceNext ==
    \E r \in Requests :
        \/ \E sid \in SessionIds, messages \in RaceLists : RaceLoad(r, sid, messages)
        \/ RaceSave(r)
        \/ \E llm \in RaceLlmOutcomes : RaceSummarize(r, llm)
        \/ RaceUpdate(r)
        \/ RaceReturn(r)

SpecRace == Init /\ [][RaceNext]_vars

\* ------------------------------------------------------------- properties

\* The record of the session of the last call, as get_session_message gives it.
Stored == GetSessionMessage(store, last.sid)

\* The last step was a call that ended without a caught exception.
CleanCall == last.op = "optimize" /\ last.err = "none"

\* The context message that stands for a summary.
ContextMessage(summary) ==
    [role |-> "user",
     content |-> Str(<<"[Context from previous conversation]: ">> \o summary.v)]

\* C1: in every stored record, 0 <= index <= len(messages), whatever lists the
\* calls were given (longer, equal or shorter than the one before).
C1_IndexWithinMessages ==
    \A sid \in DOMAIN store :
        /\ 0 <= GetSessionMessage(store, sid).index
        /\ GetSessionMessage(store, sid).index <= Len(GetSessionMessage(store, sid).messages)

C3_SummaryStandsForPrefix ==
    \A sid \in DOMAIN store :
        GetSessionMessage(store, sid).index > 0 =>
            Truthy(GetSessionMessage(store, sid).summary)

\* C4: a call never leaves the stored index lower than it found it.
C4_IndexNeverDecreases ==
    (last.op = "optimize" /\ last.had) =>
        /\ HasRecord(store, last.sid)
        /\ Stored.index >= last.idx0

\* A second compaction: the index moved from one positive value to a higher one.
C4_Witness ==
    /\ CleanCall /\ last.had /\ last.calls = 1
    /\ last.idx0 > 0 /\ Stored.index > last.idx0

\* C5: a call on a session without a record returns its input, does not call
\* the summarizer, and leaves the record (input, 0, None).
C5_NewSessionBypass ==
    (CleanCall /\ ~last.had) =>
        /\ last.ret = last.msgs
        /\ last.calls = 0
        /\ HasRecord(store, last.sid)
        /\ Stored.messages = last.msgs /\ Stored.index = 0 /\ Stored.summary = None

\* A first call with more than COMPRESSION_THRESHOLD messages.
C5_Witness ==
    CleanCall /\ ~last.had /\ Len(last.msgs) > COMPRESSION_THRESHOLD

\* C6: with a record at index i and len(M) - i <= COMPRESSION_THRESHOLD there
\* is no summarizer call, index and summary stay, and the call returns the
\* context message of the stored summary (if that is not blank and M[i:] is
\* not empty) followed by M[i:].
C6_NoCompactionAtThreshold ==
    (CleanCall /\ last.had /\ Len(last.msgs) - last.idx0 <= COMPRESSION_THRESHOLD) =>
        LET recent == SubSeq(last.msgs, last.idx0 + 1, Len(last.msgs))
        IN /\ last.calls = 0
           /\ Stored.index = last.idx0
           /\ Stored.summary = last.sum0
           /\ last.ret = IF Truthy(last.sum0) /\ Strip(last.sum0.v) # <<>> /\ recent # <<>>
                         THEN <<ContextMessage(last.sum0)>> \o recent
                         ELSE recent

\* Exactly COMPRESSION_THRESHOLD uncompressed messages after a compaction.
C6_Witness ==
    /\ CleanCall /\ last.had /\ last.idx0 > 0
    /\ Len(last.msgs) - last.idx0 = COMPRESSION_THRESHOLD
    /\ Len(last.ret) = COMPRESSION_THRESHOLD + 1

\* C7: with a record at index i and n = len(M), n - i > COMPRESSION_THRESHOLD,
\* the summarizer is called once on M[i:n-4] with the prior summary, the new
\* summary is stored with index n-4, and the call returns one context message
\* followed by M[n-4:n].
C7_CompactionView ==
    (CleanCall /\ last.had /\ Len(last.msgs) - last.idx0 > COMPRESSION_THRESHOLD) =>
        LET n == Len(last.msgs)
        IN /\ last.calls = 1
           /\ last.sumMsgs = SubSeq(last.msgs, last.idx0 + 1, n - KEEP_RECENT_MESSAGES)
           /\ last.sumPrev = last.sum0
           /\ Stored.summary = last.sumOut
           /\ Stored.index = n - KEEP_RECENT_MESSAGES
           /\ Len(last.ret) = KEEP_RECENT_MESSAGES + 1
           /\ last.ret[1] = ContextMessage(last.sumOut)
           /\ Tail(last.ret) = SubSeq(last.msgs, n - KEEP_RECENT_MESSAGES + 1, n)

\* The summarizer was called and its LLM call raised.
SummarizationFailed == last.op = "optimize" /\ last.calls = 1 /\ last.llmRaised

\* The last KEEP_RECENT_MESSAGES messages of the input of the last call.
RecentOfInput ==
    SubSeq(last.msgs, Len(last.msgs) - KEEP_RECENT_MESSAGES + 1, Len(last.msgs))

C10_FallbackNeverEmpty ==
    (last.op = "optimize" /\ last.calls = 1 /\ last.llmFailed) =>
        /\ last.sumOut.t = "str"
        /\ last.sumOut.v # <<>>

\* A summary that is a text with something other than whitespace in it.
NonBlank(summary) ==
    summary.t = "str" /\ \E k \in 1..Len(summary.v) : summary.v[k] # " "

\* The context messages of a list.
ContextMessagesOf(messages) ==
    {k \in 1..Len(messages) :
        /\ messages[k].content.v # <<>>
        /\ messages[k].content.v[1] = "[Context from previous conversation]: "}

C12_GrowthAlwaysSaved ==
    CleanCall =>
        /\ HasRecord(store, last.sid)
        /\ Stored.messages = last.msgs
        /\ (last.had /\ last.calls = 0) =>
              Stored.index = last.idx0 /\ Stored.summary = last.sum0

\* A longer list saved on a compacted record without a new compaction.
C12_Witness ==
    /\ CleanCall /\ last.had /\ last.calls = 0
    /\ last.idx0 > 0 /\ Len(last.msgs) > last.idx0 + KEEP_RECENT_MESSAGES
    /\ Stored.messages = last.msgs

\* ---------------------------------------------- the table, several sessions

DaoSessionIds == {"s1", "s2"}

\* Longest of the short message lists given to the table's operations.
DaoMaxLen == 1
\* Short lists, and one long enough to be compacted.
DaoLists == {Conversation(n) : n \in 0..DaoMaxLen} \cup {Conversation(COMPRESSION_THRESHOLD + 1)}

\* Highest index given to save_session_message and update_summary.
DaoMaxIndex == 1
DaoSummaries == {None, Str(<<"summary A">>)}

\* What the LLM gives to a call in this setting: one text, or an exception.
DaoLlmOutcomes ==
    {llm \in LlmOutcomes : llm.parse = "raise" \/ llm.summary = Str(<<"summary A">>)}

\* Highest record id the table gives out (ids grow with every new record).
MaxRecordId == 2

\* save_session_message(session_id, messages, index, summary)
DaoSave(sid, messages, index, summary) ==
    /\ RecordId(store, sid) <= MaxRecordId
    /\ store' = SaveSessionMessage(store, sid, messages, index, summary)
    /\ last' = [op |-> "save", sid |-> sid, msgs |-> messages, index |-> index,
                summary |-> summary,
                ret |-> SaveSessionMessageResult(store, sid, messages, index, summary)]
    /\ UNCHANGED <<running, written, sources, sessionVars, agentVars, localVars, downloadVars>>

\* update_summary(session_id, summary, index)
DaoUpdateSummary(sid, summary, index) ==
    /\ store' = UpdateSummary(store, sid, summary, index)
    /\ last' = [op |-> "update_summary", sid |-> sid, msgs |-> <<>>, index |-> index,
                summary |-> summary,
                ret |-> UpdateSummaryResult(store, sid, summary, index)]
    /\ UNCHANGED <<running, written, sources, sessionVars, agentVars, localVars, downloadVars>>

\* delete_session_message(session_id)
DaoDelete(sid) ==
    /\ store' = DeleteSessionMessage(store, sid)
    /\ last' = [op |-> "delete", sid |-> sid, msgs |-> <<>>,
                ret |-> DeleteSessionMessageResult(store, sid)]
    /\ UNCHANGED <<running, written, sources, sessionVars, agentVars, localVars, downloadVars>>

\* message_memory_optimize(session_id, messages) on one of the sessions.
DaoOptimize(sid, messages, fault, llm) ==
    \E r \in {MessageMemoryOptimize(store, sid, messages, fault, llm)} :
        /\ RecordId(store, sid) <= MaxRecordId
        /\ store' = r.store
        /\ last' = [op |-> "optimize", sid |-> sid, msgs |-> messages, ret |-> r.ret]
        /\ UNCHANGED <<running, written, sources, sessionVars, agentVars, localVars, downloadVars>>

DaoNext ==
    \E sid \in DaoSessionIds :
        \/ \E messages \in DaoLists, index \in 0..DaoMaxIndex, summary \in DaoSummaries :
              DaoSave(sid, messages, index, summary)
        \/ \E summary \in DaoSummaries, index \in 0..DaoMaxIndex :
              DaoUpdateSummary(sid, summary, index)
        \/ DaoDelete(sid)
        \/ \E messages \in DaoLists, fault \in Faults :
              IF ReachesSummarizer(sid, messages, fault)
              THEN \E llm \in DaoLlmOutcomes : DaoOptimize(sid, messages, fault, llm)
              ELSE fault # "update"
                   /\ DaoOptimize(sid, messages, fault, CHOOSE llm \in LlmOutcomes : TRUE)

SpecDao == Init /\ [][DaoNext]_vars

\* The record of a session as the table holds it, or "absent".
RowOf(st, sid) == IF sid \in DOMAIN st THEN <<st[sid]>> ELSE <<>>

\* C14: an operation (optimize, save, update_summary, delete) on one session
\* leaves the record of every other session as it was.
C14_OtherSessionsUnchanged ==
    [][\A b \in DaoSessionIds :
          b # last'.sid => RowOf(store', b) = RowOf(store, b)]_vars

\* A delete on one session while another session holds a record that a call
\* of message_memory_optimize has compacted.
C14_Witness ==
    /\ last.op = "delete" /\ last.ret = TRUE
    /\ \E b \in DaoSessionIds \ {last.sid} :
          /\ HasRecord(store, b)
          /\ GetSessionMessage(store, b).index > DaoMaxIndex
          /\ GetSessionMessage(store, b).id > 1
          /\ GetSessionMessage(store, b).summary # None

\* The record ids the table holds.
RecordIds(st) == {st[x].id : x \in DOMAIN st}

\* C15: save_session_message is an upsert.  The table holds one record per
\* session that has one (as many ids as sessions with a record); a save on a
\* session with a record overwrites messages, index and summary and returns
\* the id the record had; a save on a session without one creates the record
\* under a new id.
C15_SaveIsUpsert ==
    [][/\ Cardinality(RecordIds(store')) = Cardinality(DOMAIN store')
       /\ last'.op = "save" =>
             /\ HasRecord(store', last'.sid)
             /\ GetSessionMessage(store', last'.sid).messages = last'.msgs
             /\ GetSessionMessage(store', last'.sid).index = last'.index
             /\ GetSessionMessage(store', last'.sid).summary = last'.summary
             /\ GetSessionMessage(store', last'.sid).id = last'.ret
             /\ IF HasRecord(store, last'.sid)
                THEN last'.ret = GetSessionMessage(store, last'.sid).id
                ELSE last'.ret \notin RecordIds(store)]_vars

\* A save has overwritten the older of two records: it returned an id lower
\* than the id of the other session's record.
C15_Witness ==
    /\ last.op = "save" /\ last.msgs # <<>> /\ last.index > 0 /\ last.summary # None
    /\ \E b \in DaoSessionIds \ {last.sid} :
          HasRecord(store, b) /\ last.ret < GetSessionMessage(store, b).id

\* C16: update_summary on a session without a record returns False and leaves
\* the table as it was; on a session with a record it returns True and writes
\* summary and index only.
C16_UpdateSummaryFrame ==
    [][last'.op = "update_summary" =>
         IF HasRecord(store, last'.sid)
         THEN /\ last'.ret = TRUE
              /\ store' = [store EXCEPT ![last'.sid].summary = last'.summary,
                                         ![last'.sid].index = last'.index]
              /\ GetSessionMessage(store', last'.sid).messages
                   = GetSessionMessage(store, last'.sid).messages
         ELSE /\ last'.ret = FALSE
              /\ ~HasRecord(store', last'.sid)
              /\ store' = store]_vars

\* update_summary has written a summary and an index on a record that holds
\* a long message list.
C16_Witness ==
    /\ last.op = "update_summary" /\ last.ret = TRUE
    /\ HasRecord(store, last.sid)
    /\ Len(GetSessionMessage(store, last.sid).messages) > COMPRESSION_THRESHOLD
    /\ GetSessionMessage(store, last.sid).index = last.index /\ last.index > 0
    /\ GetSessionMessage(store, last.sid).summary = last.summary /\ last.summary # None

\* C13: two interleaved calls on one session can lose an update.  A write of a
\* concurrent call lowers the stored index only when the call wrote from a stale
\* read (the record changed after the call read it); the write stores what the
\* call carried.
C13_IndexLoweredOnlyByStaleWrite ==
    written.kind # "none" =>
        /\ written.idxAfter = written.carried
        /\ written.idxAfter < written.idxBefore => written.stale

\* The lost update: a save_session_message carrying the index and summary read
\* earlier has overwritten an index committed by the other call's update_summary.
C13_Witness ==
    /\ written.kind = "save" /\ written.stale
    /\ written.idxBefore = written.committed
    /\ written.idxAfter < written.committed
    /\ \A sid \in SessionIds :
          /\ HasRecord(store, sid)
          /\ GetSessionMessage(store, sid).index = running[written.by].idx0
          /\ GetSessionMessage(store, sid).summary = running[written.by].sum0
          /\ GetSessionMessage(store, sid).index < written.committed
    /\ running[written.by].pc \in {"done", "summarize"}
    /\ \E r \in Requests \ {written.by} : running[r].pc = "done"

\* ------------------------------------------------------- model gateway

\* ModelSourceType
SourceTypes == {"huggingface", "civitai", "local", "modelscope"}

\* ModelGateway.__init__: each enabled adapter whose construction succeeds is
\* registered, HuggingFace first, then Civitai, then Local.
RegistrationOrder == <<"huggingface", "civitai", "local">>
RECURSIVE Registered(_, _)
Registered(order, enabled) ==
    IF order = <<>> THEN <<>>
    ELSE (IF order[1] \in enabled THEN <<order[1]>> ELSE <<>>)
         \o Registered(Tail(order), enabled)
Registries == {Registered(RegistrationOrder, enabled) : enabled \in SUBSET {"huggingface", "civitai", "local"}}

\* key in self.sources
IsRegistered(reg, s) == \E k \in 1..Len(reg) : reg[k] = s

\* Optional[List[ModelSourceType]] and Optional[ModelSourceType] values.
List(items) == [t |-> "list", v |-> items]
Enum(s) == [t |-> "enum", v |-> <<s>>]

\* Optional[int] values.
Num(n) == [t |-> "int", v |-> n]

\* x or default, for an Optional[int] or Optional[str] x.
OrElse(x, default) ==
    IF x.t = "None" \/ (x.t = "int" /\ x.v = 0) \/ (x.t = "str" /\ x.v = <<>>)
    THEN default ELSE x.v

\* str.lower() on code points.
Lower(c) == IF c \in 65..90 THEN c + 32 ELSE c
StrLower(str) == [k \in 1..Len(str) |-> Lower(str[k])]

\* a < b for two strings (code point sequences) or two one-number keys.
RECURSIVE KeyLess(_, _)
KeyLess(a, b) ==
    IF b = <<>> THEN FALSE
    ELSE IF a = <<>> THEN TRUE
    ELSE IF a[1] # b[1] THEN a[1] < b[1]
    ELSE KeyLess(Tail(a), Tail(b))

\* ModelInfo as the adapters report it: name "B", "a", "b"; downloads, likes
\* and last_updated may be missing.
ModelProfiles ==
    {[name |-> <<66>>, downloads |-> None, likes |-> Num(2), last_updated |-> Str(<<50, 48, 50, 52>>)],
     [name |-> <<97>>, downloads |-> Num(0), likes |-> Num(2), last_updated |-> None],
     [name |-> <<98>>, downloads |-> Num(7), likes |-> None, last_updated |-> Str(<<50, 48, 50, 51>>)]}

\* The models of one adapter's answer: the k-th has the adapter's k-th id.
ModelsOf(s, profiles) ==
    [k \in 1..Len(profiles) |-> [source |-> s, id |-> k] @@ profiles[k]]

\* SearchResult
SearchResult(models, total, s, page, page_size) ==
    [models |-> models, total |-> total, source |-> s, page |-> page, page_size |-> page_size]

\* search_all, search_source: what one adapter's search comes to.
\*   outcome.status: "ok" (search returns), "raise" (search raises),
\*                   "unavailable" (is_available is False).
\* A search_source that lets the adapter's exception out: no entry.
SearchSourceDropsFailed(s, outcome, page, page_size) ==
    IF outcome.status = "ok"
    THEN <<[key |-> s, value |-> SearchResult(outcome.models, outcome.total, s, page, page_size)]>>
    ELSE <<>>

SearchSource(s, outcome, page, page_size) ==
    IF outcome.status = "ok"
    THEN <<[key |-> s, value |-> SearchResult(outcome.models, outcome.total, s, page, page_size)]>>
    ELSE <<[key |-> s, value |-> SearchResult(<<>>, 0, s, page, page_size)]>>

\* dict(results): one item per key, at the place of the key's first pair,
\* with the value of its last pair.
RECURSIVE Dict(_)
Dict(pairs) ==
    IF pairs = <<>> THEN <<>>
    ELSE LET front == Dict(SubSeq(pairs, 1, Len(pairs) - 1))
             item == pairs[Len(pairs)]
         IN IF \E k \in 1..Len(front) : front[k].key = item.key
            THEN [k \in 1..Len(front) |-> IF front[k].key = item.key THEN item ELSE front[k]]
            ELSE Append(front, item)

RECURSIVE SearchEach(_, _, _, _)
SearchEach(available, adapters, page, page_size) ==
    IF available = <<>> THEN <<>>
    ELSE SearchSource(available[1], adapters[available[1]], page, page_size)
         \o SearchEach(Tail(available), adapters, page, page_size)

RECURSIVE AvailableSources(_, _)
AvailableSources(search_sources, reg) ==
    IF search_sources = <<>> THEN <<>>
    ELSE (IF IsRegistered(reg, search_sources[1]) THEN <<search_sources[1]>> ELSE <<>>)
         \o AvailableSources(Tail(search_sources), reg)

\* ModelGateway.search_all: the dict it returns, as its items in order.
\* selected is the sources argument: None, or a list of source types.
SearchAll(reg, selected, page, page_size, adapters) ==
    LET search_sources == IF selected.v = <<>> THEN reg ELSE selected.v
        available_sources == AvailableSources(search_sources, reg)
    IN Dict(SearchEach(available_sources, adapters, page, page_size))

\* for source_type, result in all_results.items(): extend, total_count +=
RECURSIVE CombinedModels(_)
CombinedModels(items) ==
    IF items = <<>> THEN <<>>
    ELSE items[1].value.models \o CombinedModels(Tail(items))
RECURSIVE TotalCount(_)
TotalCount(items) ==
    IF items = <<>> THEN 0
    ELSE items[1].value.total + TotalCount(Tail(items))

\* The key functions of the four sorts.
SortKey(m, sort_by) ==
    IF sort_by = "downloads" THEN <<OrElse(m.downloads, 0)>>
    ELSE IF sort_by = "likes" THEN <<OrElse(m.likes, 0)>>
    ELSE IF sort_by = "updated" THEN OrElse(m.last_updated, <<>>)
    ELSE StrLower(m.name)

\* list.sort(key=..., reverse=...) is stable in both directions: an item goes
\* behind every item that does not have to come after it.
RECURSIVE SortInsert(_, _, _, _)
SortInsert(sorted, m, sort_by, reverse) ==
    IF sorted = <<>> THEN <<m>>
    ELSE IF (IF reverse
             THEN KeyLess(SortKey(sorted[1], sort_by), SortKey(m, sort_by))
             ELSE KeyLess(SortKey(m, sort_by), SortKey(sorted[1], sort_by)))
         THEN <<m>> \o sorted
         ELSE <<sorted[1]>> \o SortInsert(Tail(sorted), m, sort_by, reverse)

RECURSIVE ListSort(_, _, _)
ListSort(models, sort_by, reverse) ==
    IF models = <<>> THEN <<>>
    ELSE SortInsert(ListSort(SubSeq(models, 1, Len(models) - 1), sort_by, reverse),
                    models[Len(models)], sort_by, reverse)

\* A unified sorting that is ascending for every field.
UnifiedSortAscending(combined_models, sort_by) ==
    IF sort_by \in {"downloads", "likes", "updated", "name"}
    THEN ListSort(combined_models, sort_by, FALSE)
    ELSE combined_models

\* search_unified, "Apply unified sorting if needed".
UnifiedSort(combined_models, sort_by) ==
    IF sort_by \in {"downloads", "likes", "updated"} THEN ListSort(combined_models, sort_by, TRUE)
    ELSE IF sort_by = "name" THEN ListSort(combined_models, sort_by, FALSE)
    ELSE combined_models

\* A pagination that starts one page late.
PageModelsFromNextPage(combined_models, page, page_size) ==
    PySlice(combined_models, page * page_size, page * page_size + page_size)

\* search_unified, "Apply pagination to combined results".
PageModels(combined_models, page, page_size) ==
    PySlice(combined_models, (page - 1) * page_size, (page - 1) * page_size + page_size)

\* ModelGateway.search_unified: the SearchResult it returns, with the sorted
\* list it cut the page from.
SearchUnified(reg, selected, page, page_size, sort_by, adapters) ==
    LET all_results == SearchAll(reg, selected, 1, page_size * Len(reg), adapters)
        combined_models == UnifiedSort(CombinedModels(all_results), sort_by)
    IN [all_results |-> all_results,
        combined |-> combined_models,
        result |-> SearchResult(PageModels(combined_models, page, page_size),
                                TotalCount(all_results), "local", page, page_size)]

\* Model ids, as their characters.
LocalPrefix == <<"l", "o", "c", "a", "l", ":">>
Digits == {"0", "1", "2", "3", "4", "5", "6", "7", "8", "9"}

\* str.startswith, "/" in str, str.isdigit
StartsWith(str, prefix) ==
    Len(str) >= Len(prefix) /\ SubSeq(str, 1, Len(prefix)) = prefix
Contains(str, c) == \E k \in 1..Len(str) : str[k] = c
IsDigit(str) == str # <<>> /\ \A k \in 1..Len(str) : str[k] \in Digits

\* What a call of one adapter comes to.
\*   outcome: "ok" (the adapter returns its info, path or URL),
\*            "none" (it returns None), "raise" (it raises).
Answer(s, what) == [t |-> what, v |-> <<s>>]
Returned(value, called) == [kind |-> "return", value |-> value, error |-> "", called |-> called]
Raised(error, called) == [kind |-> "raise", value |-> None, error |-> error, called |-> called]
AskAdapter(s, what, adapters) ==
    IF adapters[s] = "ok" THEN Returned(Answer(s, what), <<s>>)
    ELSE IF adapters[s] = "none" THEN Returned(None, <<s>>)
    ELSE Raised(s, <<s>>)

\* get_model_info, "If we couldn't infer, try all sources": the first adapter
\* with a truthy info, an adapter that raises being skipped.
RECURSIVE TryAllSources(_, _, _)
TryAllSources(rest, adapters, called) ==
    IF rest = <<>> THEN Returned(None, called)
    ELSE IF adapters[rest[1]] = "ok"
         THEN Returned(Answer(rest[1], "info"), Append(called, rest[1]))
         ELSE TryAllSources(Tail(rest), adapters, Append(called, rest[1]))

\* ModelGateway.get_model_info
GetModelInfo(reg, model_id, source_type, adapters) ==
    IF source_type.t # "None"
    THEN IF IsRegistered(reg, source_type.v[1])
         THEN AskAdapter(source_type.v[1], "info", adapters)
         ELSE Returned(None, <<>>)
    ELSE IF StartsWith(model_id, LocalPrefix) /\ IsRegistered(reg, "local")
         THEN AskAdapter("local", "info", adapters)
    ELSE IF ~StartsWith(model_id, LocalPrefix) /\ Contains(model_id, "/")
            /\ IsRegistered(reg, "huggingface")
         THEN AskAdapter("huggingface", "info", adapters)
    ELSE IF ~StartsWith(model_id, LocalPrefix) /\ ~Contains(model_id, "/")
            /\ IsDigit(model_id) /\ IsRegistered(reg, "civitai")
         THEN AskAdapter("civitai", "info", adapters)
    ELSE TryAllSources(reg, adapters, <<>>)

\* A download_model that turns the adapter's exception into a None result.
DownloadModelSwallows(reg, model_id, source_type, adapters) ==
    LET s == IF source_type.t # "None" THEN source_type.v[1]
             ELSE IF StartsWith(model_id, LocalPrefix) THEN "local"
             ELSE IF Contains(model_id, "/") THEN "huggingface"
             ELSE IF IsDigit(model_id) THEN "civitai"
             ELSE ""
    IN IF s = "" \/ ~IsRegistered(reg, s) THEN Raised("ValueError", <<>>)
       ELSE IF adapters[s] = "raise" THEN Returned(None, <<s>>)
       ELSE AskAdapter(s, "path", adapters)

\* ModelGateway.download_model
DownloadModel(reg, model_id, source_type, adapters) ==
    IF source_type.t # "None"
    THEN IF IsRegistered(reg, source_type.v[1])
         THEN AskAdapter(source_type.v[1], "path", adapters)
         ELSE Raised("ValueError", <<>>)
    ELSE LET inferred == IF StartsWith(model_id, LocalPrefix) THEN "local"
                         ELSE IF Contains(model_id, "/") THEN "huggingface"
                         ELSE IF IsDigit(model_id) THEN "civitai"
                         ELSE ""
         IN IF inferred = "" THEN Raised("ValueError", <<>>)
            ELSE IF ~IsRegistered(reg, inferred) THEN Raised("ValueError", <<>>)
            ELSE AskAdapter(inferred, "path", adapters)

\* A get_model_url that looks for "/" before it looks for "local:".
GetModelUrlSlashFirst(reg, model_id, source_type, adapters) ==
    IF source_type.t # "None"
    THEN IF IsRegistered(reg, source_type.v[1])
         THEN AskAdapter(source_type.v[1], "url", adapters)
         ELSE Returned(None, <<>>)
    ELSE LET inferred == IF Contains(model_id, "/") THEN "huggingface"
                         ELSE IF StartsWith(model_id, LocalPrefix) THEN "local"
                         ELSE IF IsDigit(model_id) THEN "civitai"
                         ELSE ""
         IN IF inferred = "" THEN Returned(None, <<>>)
            ELSE IF ~IsRegistered(reg, inferred) THEN Returned(None, <<>>)
            ELSE AskAdapter(inferred, "url", adapters)

\* ModelGateway.get_model_url
GetModelUrl(reg, model_id, source_type, adapters) ==
    IF source_type.t # "None"
    THEN IF IsRegistered(reg, source_type.v[1])
         THEN AskAdapter(source_type.v[1], "url", adapters)
         ELSE Returned(None, <<>>)
    ELSE LET inferred == IF StartsWith(model_id, LocalPrefix) THEN "local"
                         ELSE IF Contains(model_id, "/") THEN "huggingface"
                         ELSE IF IsDigit(model_id) THEN "civitai"
                         ELSE ""
         IN IF inferred = "" THEN Returned(None, <<>>)
            ELSE IF ~IsRegistered(reg, inferred) THEN Returned(None, <<>>)
            ELSE AskAdapter(inferred, "url", adapters)

\* ------------------------------------------------------ Civitai adapter

\* What the three requests of CivitaiSource.download_model come to.
\*   info (GET /models/{id}): "found" (200, a model with a version),
\*       "no_versions" (200, modelVersions empty), "not_found" (status not 200),
\*       "transport" (the request raises: connection error, timeout);
\*   version (GET /model-versions/{id}): "found" (200 with a file that has a
\*       downloadUrl), "no_files" (200, no files), "not_found", "transport";
\*   file (GET downloadUrl): "ok", "bad_status" (status not 200), "transport".
CivitaiNets ==
    [info : {"found", "no_versions", "not_found", "transport"},
     version : {"found", "no_files", "not_found", "transport"},
     file : {"ok", "bad_status", "transport"}]

\* CivitaiSource.get_model_info: "info" (a ModelInfo with its metadata), or
\* None; an exception of the request is logged and answered with None.
CivitaiGetModelInfo(net) ==
    IF net.info = "found" THEN [t |-> "info", v |-> <<"latest_version_id">>]
    ELSE IF net.info = "no_versions" THEN [t |-> "info", v |-> <<>>]
    ELSE None

\* CivitaiSource.download_model: how it ends, and the requests it has made.
CivitaiDownloadModel(net) ==
    LET model_info == CivitaiGetModelInfo(net)
    IN IF model_info.t = "None"
       THEN [kind |-> "raise", error |-> "ValueError: Model not found or has no versions",
             requests |-> <<"info">>]
       ELSE IF model_info.v = <<>>
       THEN [kind |-> "raise", error |-> "ValueError: No version found for model",
             requests |-> <<"info">>]
       ELSE IF net.version = "transport"
       THEN [kind |-> "raise", error |-> "ClientError", requests |-> <<"info", "version">>]
       ELSE IF net.version = "not_found"
       THEN [kind |-> "raise", error |-> "ValueError: Version not found",
             requests |-> <<"info", "version">>]
       ELSE IF net.version = "no_files"
       THEN [kind |-> "raise", error |-> "ValueError: No files found for version",
             requests |-> <<"info", "version">>]
       ELSE IF net.file = "transport"
       THEN [kind |-> "raise", error |-> "ClientError", requests |-> <<"info", "version", "file">>]
       ELSE IF net.file = "bad_status"
       THEN [kind |-> "raise", error |-> "ValueError: Download failed with status",
             requests |-> <<"info", "version", "file">>]
       ELSE [kind |-> "return", error |-> "", requests |-> <<"info", "version", "file">>]

CivitaiCalls == {[fn |-> "civitai.download_model", net |-> net] : net \in CivitaiNets}

\* ------------------------------------------ calls of the model gateway

\* Most models the adapters return to one unified search, all together.
MaxModels == 2
MaxPage == 2
MaxPageSize == 2

\* The adapters of a registry.
Range(reg) == {reg[k] : k \in 1..Len(reg)}

\* The sources argument of search_all.
SearchSelections ==
    {None, List(<<>>), List(<<"local", "huggingface">>), List(<<"civitai", "civitai">>),
     List(<<"modelscope", "civitai">>)}
\* The sources argument of search_unified.
UnifiedSelections == {None, List(<<"local", "civitai", "civitai">>)}
SortBys == {None, Str(<<"downloads">>), Str(<<"likes">>), Str(<<"updated">>), Str(<<"name">>)}

\* What an adapter may do in a search_all: fail, or return at most one model
\* with a total that counts it, or one more.
SearchChoices ==
    {[status |-> st, profiles |-> <<>>, more |-> 0] : st \in {"raise", "unavailable"}}
    \cup {[status |-> "ok", profiles |-> ps, more |-> more] :
             ps \in {<<>>} \cup {<<p>> : p \in ModelProfiles}, more \in {0, 1}}

SearchOutcome(s, choice) ==
    [status |-> choice.status,
     models |-> ModelsOf(s, choice.profiles),
     total |-> Len(choice.profiles) + choice.more]

SearchAllCalls(reg) ==
    {[fn |-> "search_all", selected |-> sel, page |-> page, page_size |-> page_size,
      adapters |-> [s \in Range(reg) |-> SearchOutcome(s, choice[s])]] :
        sel \in SearchSelections, page \in 1..MaxPage, page_size \in 1..MaxPageSize,
        choice \in [Range(reg) -> SearchChoices]}

\* At most MaxModels models, shared out in order between the three adapters.
ProfileSeqs == UNION {[1..n -> ModelProfiles] : n \in 0..MaxModels}
SharesOf(ps) ==
    UNION {{[huggingface |-> SubSeq(ps, 1, i), civitai |-> SubSeq(ps, i + 1, j),
             local |-> SubSeq(ps, j + 1, Len(ps))] : j \in i..Len(ps)} : i \in 0..Len(ps)}
Shares == UNION {SharesOf(ps) : ps \in ProfileSeqs}

\* In a unified search at most one adapter fails; the others report as many
\* models as they return, or one more.
Failing == {[s |-> "", status |-> "ok", more |-> 0], [s |-> "", status |-> "ok", more |-> 1],
            [s |-> "civitai", status |-> "raise", more |-> 1],
            [s |-> "local", status |-> "unavailable", more |-> 0]}

SearchUnifiedCalls(reg) ==
    {[fn |-> "search_unified", selected |-> sel, page |-> page, page_size |-> page_size,
      sort_by |-> sort_by,
      adapters |-> [s \in Range(reg) |->
                      IF s = failing.s
                      THEN SearchOutcome(s, [status |-> failing.status, profiles |-> <<>>, more |-> 0])
                      ELSE SearchOutcome(s, [status |-> "ok", profiles |-> share[s],
                                             more |-> failing.more])]] :
        sel \in UnifiedSelections, page \in 1..MaxPage, page_size \in 1..MaxPageSize,
        sort_by \in SortBys, share \in Shares, failing \in Failing}

ModelIds ==
    {LocalPrefix \o <<"a", "/", "b">>, LocalPrefix \o <<"7">>, LocalPrefix,
     <<"u", "/", "m">>, <<"1", "/", "2">>, <<"1", "2", "3">>, <<"a", "b", "c">>,
     <<"1", "a">>, <<"x">> \o LocalPrefix, <<"l", "o", "c", "a", "l">>, <<>>}

ResolveCalls(reg) ==
    {[fn |-> fn, model_id |-> model_id, source_type |-> source_type, adapters |-> adapters] :
        fn \in {"get_model_info", "download_model", "get_model_url"},
        model_id \in ModelIds,
        source_type \in {None} \cup {Enum(s) : s \in SourceTypes},
        adapters \in [Range(reg) -> {"ok", "none", "raise"}]}

\* LocalModelScanner.search, "Paginate": an adapter that holds a catalog
\* answers with the page asked for and with the size of the catalog as total.
ExactSearch(s, catalog, page, page_size) ==
    [status |-> "ok",
     models |-> PySlice(ModelsOf(s, catalog), (page - 1) * page_size,
                        (page - 1) * page_size + page_size),
     total |-> Len(catalog)]

\* search_unified over adapters that hold catalogs: each is asked for its
\* page 1 of page_size * len(self.sources) models.
SearchUnifiedExact(reg, catalogs, page, page_size) ==
    SearchUnified(reg, None, page, page_size, "",
                  [s \in Range(reg) |-> ExactSearch(s, catalogs[s], 1, page_size * Len(reg))])

\* A caller that asks search_unified for the pages 1, 2, ... of one
\* page_size until a page is empty: the models of the pages, in order.
RECURSIVE PageThrough(_, _, _, _)
PageThrough(reg, catalogs, page_size, page) ==
    LET models == SearchUnifiedExact(reg, catalogs, page, page_size).result.models
    IN IF models = <<>> THEN <<>>
       ELSE models \o PageThrough(reg, catalogs, page_size, page + 1)

\* The catalogs of the adapters: up to MaxModels models each.
PagingCalls(reg) ==
    {[fn |-> "page_through", page_size |-> page_size,
      catalogs |-> [s \in Range(reg) |->
                      [k \in 1..sizes[s] |-> CHOOSE p \in ModelProfiles : TRUE]]] :
        page_size \in 1..MaxPageSize, sizes \in [Range(reg) -> 0..MaxModels]}

\* str.split(sep)
RECURSIVE Split(_, _)
Split(str, sep) ==
    IF ~Contains(str, sep) THEN <<str>>
    ELSE LET k == CHOOSE i \in 1..Len(str) : str[i] = sep /\ \A j \in 1..(i - 1) : str[j] # sep
         IN <<SubSeq(str, 1, k - 1)>> \o Split(SubSeq(str, k + 1, Len(str)), sep)

\* HuggingFaceSource.validate_model_id, CivitaiSource.validate_model_id,
\* LocalModelScanner.validate_model_id
ValidateModelId(s, model_id) ==
    IF model_id = <<>> THEN FALSE
    ELSE IF s = "huggingface"
    THEN LET parts == Split(model_id, "/")
         IN Len(parts) = 2 /\ \A k \in 1..Len(parts) : Len(Strip(parts[k])) > 0
    ELSE IF s = "civitai" THEN IsDigit(model_id)
    ELSE StartsWith(model_id, LocalPrefix)

\* Ids with more than one "/", or with nothing before or after it.
ValidateIds ==
    ModelIds \cup {<<"o", "/", "m", "/", "x">>, <<"u", "/">>, <<"/", "m">>, <<" ", "/", "m">>,
                   <<"/">>, LocalPrefix \o <<"/">>}

ValidateCalls == {[fn |-> "validate_model_id", model_id |-> id] : id \in ValidateIds}

\* A gateway with some of its adapters registered, and one call to it.
InitGateway ==
    /\ store = [x \in {} |-> None]
    /\ running = [r \in Requests |-> Idle]
    /\ written = NoWrite
    /\ sources \in Registries
    /\ InitLocal
    /\ InitDownloads
    /\ InitSessions
    /\ InitAgent
    /\ last \in {[op |-> "call", call |-> c] :
                   c \in SearchAllCalls(sources) \cup SearchUnifiedCalls(sources)
                         \cup ResolveCalls(sources) \cup CivitaiCalls
                         \cup PagingCalls(sources) \cup ValidateCalls}

GatewaySearchAll ==
    /\ last.op = "call" /\ last.call.fn = "search_all"
    /\ last' = [op |-> "reply", call |-> last.call,
                items |-> SearchAll(sources, last.call.selected, last.call.page,
                                    last.call.page_size, last.call.adapters)]
    /\ UNCHANGED <<store, running, written, sources, sessionVars, agentVars, localVars, downloadVars>>

GatewaySearchUnified ==
    /\ last.op = "call" /\ last.call.fn = "search_unified"
    /\ last' = [op |-> "reply", call |-> last.call,
                out |-> SearchUnified(sources, last.call.selected, last.call.page,
                                      last.call.page_size,
                                      IF last.call.sort_by.t = "None" THEN "" ELSE last.call.sort_by.v[1],
                                      last.call.adapters)]
    /\ UNCHANGED <<store, running, written, sources, sessionVars, agentVars, localVars, downloadVars>>

GatewayGetModelInfo ==
    /\ last.op = "call" /\ last.call.fn = "get_model_info"
    /\ last' = [op |-> "reply", call |-> last.call,
                out |-> GetModelInfo(sources, last.call.model_id, last.call.source_type,
                                     last.call.adapters)]
    /\ UNCHANGED <<store, running, written, sources, sessionVars, agentVars, localVars, downloadVars>>

GatewayDownloadModel ==
    /\ last.op = "call" /\ last.call.fn = "download_model"
    /\ last' = [op |-> "reply", call |-> last.call,
                out |-> DownloadModel(sources, last.call.model_id, last.call.source_type,
                                      last.call.adapters)]
    /\ UNCHANGED <<store, running, written, sources, sessionVars, agentVars, localVars, downloadVars>>

GatewayGetModelUrl ==
    /\ last.op = "call" /\ last.call.fn = "get_model_url"
    /\ last' = [op |-> "reply", call |-> last.call,
                out |-> GetModelUrl(sources, last.call.model_id, last.call.source_type,
                                    last.call.adapters)]
    /\ UNCHANGED <<store, running, written, sources, sessionVars, agentVars, localVars, downloadVars>>

\* One call of the Civitai adapter's download_model.
CivitaiDownload ==
    /\ last.op = "call" /\ last.call.fn = "civitai.download_model"
    /\ last' = [op |-> "reply", call |-> last.call, out |-> CivitaiDownloadModel(last.call.net)]
    /\ UNCHANGED <<store, running, written, sources, sessionVars, agentVars, localVars, downloadVars>>

\* The pages of a unified search are read one after the other.
GatewayPageThrough ==
    /\ last.op = "call" /\ last.call.fn = "page_through"
    /\ last' = [op |-> "reply", call |-> last.call,
                out |-> [total |-> SearchUnifiedExact(sources, last.call.catalogs, 1,
                                                      last.call.page_size).result.total,
                         models |-> PageThrough(sources, last.call.catalogs,
                                                last.call.page_size, 1)]]
    /\ UNCHANGED <<store, running, written, sources, sessionVars, agentVars, localVars, downloadVars>>

\* The gateway picks the adapter of an id, and each registered adapter is
\* asked whether the id is one of its own.
GatewayValidate ==
    /\ last.op = "call" /\ last.call.fn = "validate_model_id"
    /\ last' = [op |-> "reply", call |-> last.call,
                out |-> [asked |-> GetModelUrl(sources, last.call.model_id, None,
                                               [s \in Range(sources) |-> "ok"]).called,
                         accepts |-> [s \in Range(sources) |->
                                        ValidateModelId(s, last.call.model_id)]]]
    /\ UNCHANGED <<store, running, written, sources, sessionVars, agentVars, localVars, downloadVars>>

GatewayNext ==
    \/ GatewayPageThrough
    \/ GatewayValidate
    \/ CivitaiDownload
    \/ GatewaySearchAll
    \/ GatewaySearchUnified
    \/ GatewayGetModelInfo
    \/ GatewayDownloadModel
    \/ GatewayGetModelUrl

SpecGateway == InitGateway /\ [][GatewayNext]_vars

\* ------------------------------------------ properties of the gateway

\* The adapters a search selects: the registered ones among those named, or
\* all registered ones when none is named.
SelectedAdapters ==
    IF last.call.selected.v = <<>> THEN Range(sources)
    ELSE Range(last.call.selected.v) \cap Range(sources)

\* C17: search_all returns a mapping with exactly one entry for each selected
\* registered adapter, whatever subset of them raises: the adapter's own result
\* where its search returned, an empty result (no models, total 0) otherwise.
C17_OneEntryPerSelectedAdapter ==
    (last.op = "reply" /\ last.call.fn = "search_all") =>
        /\ {last.items[k].key : k \in 1..Len(last.items)} = SelectedAdapters
        /\ \A k, l \in 1..Len(last.items) : last.items[k].key = last.items[l].key => k = l
        /\ \A k \in 1..Len(last.items) :
              LET outcome == last.call.adapters[last.items[k].key]
                  value == last.items[k].value
              IN IF outcome.status = "ok"
                 THEN value.models = outcome.models /\ value.total = outcome.total
                 ELSE value.models = <<>> /\ value.total = 0

\* One selected adapter raised and another one returned a model.
C17_Witness ==
    /\ last.op = "reply" /\ last.call.fn = "search_all"
    /\ \E k, l \in 1..Len(last.items) :
          /\ last.call.adapters[last.items[k].key].status = "raise"
          /\ last.items[k].value.models = <<>>
          /\ last.call.adapters[last.items[l].key].status = "ok"
          /\ last.items[l].value.models # <<>>

\* The value a unified search orders by: the field, a missing one counting
\* as 0 or as the empty string; the lower-cased name.
FieldOf(m, sort_by) ==
    IF sort_by = "downloads" THEN <<IF m.downloads.t = "None" THEN 0 ELSE m.downloads.v>>
    ELSE IF sort_by = "likes" THEN <<IF m.likes.t = "None" THEN 0 ELSE m.likes.v>>
    ELSE IF sort_by = "updated" THEN (IF m.last_updated.t = "None" THEN <<>> ELSE m.last_updated.v)
    ELSE [k \in 1..Len(m.name) |-> IF m.name[k] \in 65..90 THEN m.name[k] + 32 ELSE m.name[k]]

\* The models of the selected adapters, adapter after adapter.
MergedInput == CombinedModels(last.out.all_results)
PositionIn(seq, m) == CHOOSE k \in 1..Len(seq) : seq[k] = m

\* C18: for sort_by in downloads, likes, updated the merged models are in
\* descending order of the field (a missing value as the lowest), for name in
\* ascending order of the lower-cased name; models with equal keys keep their
\* input order.
C18_MergedSorted ==
    (last.op = "reply" /\ last.call.fn = "search_unified" /\ last.call.sort_by.t # "None") =>
        LET sort_by == last.call.sort_by.v[1]
            merged == last.out.combined
        IN /\ Len(merged) = Len(MergedInput)
           /\ \A k \in 1..Len(MergedInput) : \E l \in 1..Len(merged) : merged[l] = MergedInput[k]
           /\ \A k, l \in 1..Len(merged) :
                 k < l =>
                   /\ IF sort_by = "name"
                      THEN ~KeyLess(FieldOf(merged[l], sort_by), FieldOf(merged[k], sort_by))
                      ELSE ~KeyLess(FieldOf(merged[k], sort_by), FieldOf(merged[l], sort_by))
                   /\ FieldOf(merged[k], sort_by) = FieldOf(merged[l], sort_by)
                        => PositionIn(MergedInput, merged[k]) < PositionIn(MergedInput, merged[l])

\* A sort by downloads has moved a model of a later adapter in front of a
\* model of an earlier one.
C18_Witness ==
    /\ last.op = "reply" /\ last.call.fn = "search_unified"
    /\ last.call.sort_by = Str(<<"downloads">>)
    /\ Len(last.out.combined) = MaxModels
    /\ last.out.combined # MergedInput
    /\ last.out.combined[1].source # MergedInput[1].source

\* The total an adapter reports to a unified search: none when it is not
\* selected or its search fails.
ReportedTotal(s) ==
    IF s \in SelectedAdapters /\ last.call.adapters[s].status = "ok"
    THEN last.call.adapters[s].total ELSE 0

\* C19: search_unified returns the models (page-1)*page_size+1 .. page*page_size
\* of the merged sequence, at most page_size of them, and as total the sum of
\* the totals the selected adapters report.
C19_PageOfMerged ==
    (last.op = "reply" /\ last.call.fn = "search_unified") =>
        LET page == last.call.page
            page_size == last.call.page_size
            merged == last.out.combined
            upto == IF page * page_size < Len(merged) THEN page * page_size ELSE Len(merged)
        IN /\ last.out.result.models = SubSeq(merged, (page - 1) * page_size + 1, upto)
           /\ Len(last.out.result.models) <= page_size
           /\ last.out.result.total
                = ReportedTotal("huggingface") + ReportedTotal("civitai") + ReportedTotal("local")

\* The second page of one model, of two merged ones, with a total above the
\* number of merged models.
C19_Witness ==
    /\ last.op = "reply" /\ last.call.fn = "search_unified"
    /\ last.call.page > 1 /\ last.out.result.models # <<>>
    /\ Len(last.out.combined) > Len(last.out.result.models)
    /\ last.out.result.total > Len(last.out.combined)

\* The adapter an id stands for: "local:" first, then "/", then all digits.
AdapterOfId(model_id) ==
    IF Len(model_id) >= 6 /\ SubSeq(model_id, 1, 6) = <<"l", "o", "c", "a", "l", ":">> THEN "local"
    ELSE IF \E k \in 1..Len(model_id) : model_id[k] = "/" THEN "huggingface"
    ELSE IF model_id # <<>> /\ \A k \in 1..Len(model_id) : model_id[k] \in Digits THEN "civitai"
    ELSE ""

\* C20: with no explicit source, get_model_info, download_model and
\* get_model_url all ask the adapter the id stands for (when it is registered),
\* and only that one; what the adapter does is what the call does.
C20_SameInference ==
    (/\ last.op = "reply"
     /\ last.call.fn \in {"get_model_info", "download_model", "get_model_url"}
     /\ last.call.source_type = None
     /\ AdapterOfId(last.call.model_id) \in Range(sources)) =>
        LET s == AdapterOfId(last.call.model_id)
        IN /\ last.out.called = <<s>>
           /\ last.call.adapters[s] = "ok" => last.out.kind = "return" /\ last.out.value.v = <<s>>
           /\ last.call.adapters[s] = "none" => last.out.kind = "return" /\ last.out.value = None
           /\ last.call.adapters[s] = "raise" => last.out.kind = "raise" /\ last.out.error = s

\* get_model_url of an id that starts with "local:" and contains "/", with
\* HuggingFace registered, has asked Local.
C20_Witness ==
    /\ last.op = "reply" /\ last.call.fn = "get_model_url"
    /\ last.call.source_type = None
    /\ last.call.model_id = LocalPrefix \o <<"a", "/", "b">>
    /\ "huggingface" \in Range(sources)
    /\ last.out.called = <<"local">> /\ last.out.value.v = <<"local">>

\* The registered adapters up to the first one that answers, all of them when
\* none answers.
RECURSIVE AskedInOrder(_, _)
AskedInOrder(reg, adapters) ==
    IF reg = <<>> THEN <<>>
    ELSE IF adapters[reg[1]] = "ok" THEN <<reg[1]>>
    ELSE <<reg[1]>> \o AskedInOrder(Tail(reg), adapters)

\* C21: for an id that matches no inference rule, with no explicit source,
\* get_model_info, get_model_url and download_model ask the registered
\* adapters in registration order and use the first one that answers.
C21_UnmatchedIdTriesAll ==
    (/\ last.op = "reply"
     /\ last.call.fn \in {"get_model_info", "download_model", "get_model_url"}
     /\ last.call.source_type = None
     /\ AdapterOfId(last.call.model_id) = "") =>
        LET asked == AskedInOrder(sources, last.call.adapters)
            answers == asked # <<>> /\ last.call.adapters[asked[Len(asked)]] = "ok"
        IN /\ last.out.called = asked
           /\ answers => last.out.kind = "return" /\ last.out.value.v = <<asked[Len(asked)]>>

\* C22: download_model asks exactly one adapter, the explicit one or the one
\* the id stands for, and ends as that adapter's download_model ends: with its
\* return value, or with its exception; without a registered adapter to ask
\* it raises and asks none.
C22_DownloadDelegates ==
    (last.op = "reply" /\ last.call.fn = "download_model") =>
        LET s == IF last.call.source_type.t # "None" THEN last.call.source_type.v[1]
                 ELSE AdapterOfId(last.call.model_id)
        IN IF s \in Range(sources)
           THEN /\ last.out.called = <<s>>
                /\ last.call.adapters[s] = "ok" =>
                      last.out.kind = "return" /\ last.out.value = Answer(s, "path")
                /\ last.call.adapters[s] = "none" =>
                      last.out.kind = "return" /\ last.out.value = None
                /\ last.call.adapters[s] = "raise" =>
                      last.out.kind = "raise" /\ last.out.error = s
           ELSE last.out.called = <<>> /\ last.out.kind = "raise" /\ last.out.error = "ValueError"

\* The adapter the id stands for has raised, another registered adapter would
\* have answered, and the call has ended in the first adapter's exception.
C22_Witness ==
    /\ last.op = "reply" /\ last.call.fn = "download_model"
    /\ last.call.source_type = None
    /\ last.call.model_id = <<"1", "2", "3">>
    /\ sources = RegistrationOrder
    /\ last.call.adapters["civitai"] = "raise" /\ last.call.adapters["huggingface"] = "ok"
    /\ last.out.kind = "raise" /\ last.out.error = "civitai" /\ last.out.called = <<"civitai">>

\* The errors that say the id does not resolve.
NotFoundErrors ==
    {"ValueError: Model not found or has no versions", "ValueError: No version found for model",
     "ValueError: Version not found"}

\* C23: the adapter's download reports a not-found error only when the id
\* does not resolve, and a failing transport, that of the metadata lookup
\* included, as the transport's error, never as not-found.
C23_TransportFailureNotNotFound ==
    (last.op = "reply" /\ last.call.fn = "civitai.download_model") =>
        /\ last.call.net.info = "transport" =>
              last.out.kind = "raise" /\ last.out.error \notin NotFoundErrors
        /\ last.out.error \in NotFoundErrors =>
              \/ last.call.net.info \in {"not_found", "no_versions"}
              \/ last.call.net.info = "found" /\ last.call.net.version = "not_found"

\* --------------------------------------------------- local model scanner

\* LocalModelScanner._cache_ttl, in seconds.
CacheTtl == 300

\* The clock is read at the start of a period of CacheTtl seconds, or one
\* second later.
MaxPeriods == 1
Instants == {k * CacheTtl + e : k \in 0..MaxPeriods, e \in {0, 1}}

\* The model files there may be, and their sizes in bytes.
LocalFiles == {"a.safetensors", "b.ckpt"}
MaxFileSize == 1

\* _scan_models: a ModelInfo for each model file on the disk; its id is
\* "local:" and the file's path, its metadata holds the full path.
ScanModels(files) ==
    {[id |-> f, size |-> files[f], full_path |-> f] : f \in DOMAIN files}

\* A _should_refresh_cache that refreshes already at the age of the TTL.
ShouldRefreshCacheAtTtl(sc, now) ==
    \/ sc.cache.t = "None" \/ sc.timestamp.t = "None"
    \/ now - sc.timestamp.v >= CacheTtl

\* LocalModelScanner._should_refresh_cache
ShouldRefreshCache(sc, now) ==
    \/ sc.cache.t = "None" \/ sc.timestamp.t = "None"
    \/ now - sc.timestamp.v > CacheTtl

\* LocalModelScanner._get_models: the scanner after the call, the list it
\* returns, and whether it has scanned.
GetModels(sc, h, force_refresh) ==
    IF force_refresh \/ ShouldRefreshCache(sc, h.now)
    THEN [scanner |-> [cache |-> [t |-> "list", v |-> ScanModels(h.files)],
                       timestamp |-> [t |-> "float", v |-> h.now]],
          models |-> ScanModels(h.files),
          rescanned |-> TRUE]
    ELSE [scanner |-> sc, models |-> sc.cache.v, rescanned |-> FALSE]

\* LocalModelScanner.get_model_info: the model of the index with this id, or
\* None (v empty).
LocalGetModelInfo(models, model_id) ==
    IF \E m \in models : m.id = model_id
    THEN [t |-> "info", v |-> {m \in models : m.id = model_id}]
    ELSE [t |-> "None", v |-> {}]

\* LocalModelScanner.download_model, after get_model_info: how it ends and
\* the calls of progress_callback it has made.
LocalDownloadModel(model_info, files, progress_callback) ==
    IF model_info.t = "None"
    THEN [kind |-> "raise", value |-> "ValueError: Local model not found", callbacks |-> <<>>]
    ELSE LET info == CHOOSE m \in model_info.v : TRUE
         IN IF info.full_path \notin DOMAIN files
            THEN [kind |-> "raise", value |-> "ValueError: Local model file not found",
                  callbacks |-> <<>>]
            ELSE [kind |-> "return", value |-> info.full_path,
                  callbacks |-> IF progress_callback /\ info.size # 0
                                THEN <<[downloaded |-> info.size, total |-> info.size]>>
                                ELSE <<>>]

NoLookup == [fn |-> "", model_id |-> "", force_refresh |-> FALSE, progress_callback |-> FALSE,
             rescanned |-> FALSE, models |-> {}, info |-> [t |-> "None", v |-> {}],
             out |-> [kind |-> "", value |-> "", callbacks |-> <<>>]]

\* The clock goes on; the answer of the last call is forgotten.
ClockAdvance(t) ==
    /\ t > host.now
    /\ host' = [host EXCEPT !.now = t]
    /\ last' = NoLookup
    /\ UNCHANGED <<store, running, written, sources, sessionVars, agentVars, scanner, downloadVars>>

\* A model file is put on the disk, or written again with another size.
DiskWrite(f, size) ==
    /\ host' = [host EXCEPT !.files = [x \in DOMAIN host.files \cup {f} |->
                                         IF x = f THEN size ELSE host.files[x]]]
    /\ last' = NoLookup
    /\ UNCHANGED <<store, running, written, sources, sessionVars, agentVars, scanner, downloadVars>>

\* A model file is taken off the disk.
DiskRemove(f) ==
    /\ f \in DOMAIN host.files
    /\ host' = [host EXCEPT !.files = [x \in DOMAIN host.files \ {f} |-> host.files[x]]]
    /\ last' = NoLookup
    /\ UNCHANGED <<store, running, written, sources, sessionVars, agentVars, scanner, downloadVars>>

\* LocalModelScanner.search(query, force_refresh=...): its lookup of the index.
LocalSearch(force_refresh) ==
    \E r \in {GetModels(scanner, host, force_refresh)} :
        /\ scanner' = r.scanner
        /\ last' = [NoLookup EXCEPT !.fn = "search", !.force_refresh = force_refresh,
                                    !.rescanned = r.rescanned, !.models = r.models]
        /\ UNCHANGED <<store, running, written, sources, sessionVars, agentVars, host, downloadVars>>

\* LocalModelScanner.refresh_cache
LocalRefreshCache ==
    \E r \in {GetModels(scanner, host, TRUE)} :
        /\ scanner' = r.scanner
        /\ last' = [NoLookup EXCEPT !.fn = "refresh_cache", !.force_refresh = TRUE,
                                    !.rescanned = r.rescanned, !.models = r.models]
        /\ UNCHANGED <<store, running, written, sources, sessionVars, agentVars, host, downloadVars>>

\* LocalModelScanner.get_model_info(model_id)
LocalInfo(model_id) ==
    \E r \in {GetModels(scanner, host, FALSE)} :
        /\ scanner' = r.scanner
        /\ last' = [NoLookup EXCEPT !.fn = "get_model_info", !.model_id = model_id,
                                    !.rescanned = r.rescanned, !.models = r.models,
                                    !.info = LocalGetModelInfo(r.models, model_id)]
        /\ UNCHANGED <<store, running, written, sources, sessionVars, agentVars, host, downloadVars>>

\* LocalModelScanner.download_model(model_id, dest_dir, progress_callback)
LocalDownload(model_id, progress_callback) ==
    \E r \in {GetModels(scanner, host, FALSE)} :
        /\ scanner' = r.scanner
        /\ last' = [NoLookup EXCEPT !.fn = "download_model", !.model_id = model_id,
                                    !.progress_callback = progress_callback,
                                    !.rescanned = r.rescanned, !.models = r.models,
                                    !.info = LocalGetModelInfo(r.models, model_id),
                                    !.out = LocalDownloadModel(LocalGetModelInfo(r.models, model_id),
                                                               host.files, progress_callback)]
        /\ UNCHANGED <<store, running, written, sources, sessionVars, agentVars, host, downloadVars>>

InitScanner ==
    /\ store = [x \in {} |-> None]
    /\ running = [r \in Requests |-> Idle]
    /\ written = NoWrite
    /\ sources = RegistrationOrder
    /\ last = NoLookup
    /\ InitLocal
    /\ InitDownloads
    /\ InitSessions
    /\ InitAgent

LocalNext ==
    \/ \E t \in Instants : ClockAdvance(t)
    \/ \E f \in LocalFiles, size \in 0..MaxFileSize : DiskWrite(f, size)
    \/ \E f \in LocalFiles : DiskRemove(f)
    \/ \E force_refresh \in BOOLEAN : LocalSearch(force_refresh)
    \/ LocalRefreshCache
    \/ \E model_id \in LocalFiles : LocalInfo(model_id)
    \/ \E model_id \in LocalFiles, progress_callback \in BOOLEAN :
          LocalDownload(model_id, progress_callback)

SpecLocal == InitScanner /\ [][LocalNext]_vars

\* C24: download_model of a local id that resolves to an existing file
\* returns the file's path, calls a supplied progress callback once, with
\* downloaded = total, and leaves the disk as it is; for an id that does not
\* resolve it raises.
C24_LocalDownloadIsNoOp ==
    [][last'.fn = "download_model" =>
         /\ host'.files = host.files
         /\ IF last'.info.t = "info" /\ last'.model_id \in DOMAIN host.files
            THEN /\ last'.out.kind = "return" /\ last'.out.value = last'.model_id
                 /\ last'.progress_callback =>
                       /\ Len(last'.out.callbacks) = 1
                       /\ last'.out.callbacks[1].downloaded = last'.out.callbacks[1].total
                 /\ ~last'.progress_callback => last'.out.callbacks = <<>>
            ELSE last'.out.kind = "raise" /\ last'.out.callbacks = <<>>]_vars

\* C25: a lookup scans exactly when the index was never built, or is older
\* than CacheTtl seconds, or the refresh is forced; a scan sets the timestamp
\* to the time of the scan and the index to the files found; any other lookup
\* leaves index and timestamp alone and answers from the index.
C25_RescanWhenStaleOrForced ==
    [][last'.fn \in {"search", "refresh_cache", "get_model_info", "download_model"} =>
         LET never == scanner.cache.t = "None"
             stale == ~never /\ host.now - scanner.timestamp.v > 300
         IN /\ last'.rescanned <=> (never \/ stale \/ last'.force_refresh)
            /\ last'.rescanned =>
                  /\ scanner'.timestamp = [t |-> "float", v |-> host.now]
                  /\ scanner'.cache = [t |-> "list", v |-> ScanModels(host.files)]
                  /\ last'.models = ScanModels(host.files)
            /\ ~last'.rescanned =>
                  /\ scanner' = scanner
                  /\ last'.models = scanner.cache.v]_vars

\* A lookup at the age of exactly CacheTtl seconds was answered from an index
\* that no longer shows the disk.
C25_Witness ==
    /\ last.fn = "get_model_info" /\ ~last.rescanned
    /\ scanner.timestamp.t = "float" /\ host.now - scanner.timestamp.v = CacheTtl
    /\ scanner.cache.v # ScanModels(host.files)
    /\ last.models = scanner.cache.v

\* ------------------------------------------------ download progress registry

\* A Python float that is the quotient n / d, or None where a float may be
\* missing (estimated_time), or the key not yet in the dict (total_time).
Float(n, d) == [t |-> "float", n |-> n, d |-> d]
NoFloat == [t |-> "None", n |-> 0, d |-> 1]
NoKey == [t |-> "absent", n |-> 0, d |-> 1]
FloatLess(a, b) == a.n * b.d < b.n * a.d

\* round(n / d, 2): the nearest hundredth, a half going to the even one.
Round2(n, d) ==
    LET q == (n * 100) \div d
        r == (n * 100) % d
    IN Float(IF 2 * r > d \/ (2 * r = d /\ q % 2 = 1) THEN q + 1 ELSE q, 100)

\* generate_download_id: the ids there may be.
DownloadIds == {"d1"}

\* The sizes of files, the bytes of one update, the readings of time.time()
\* and the texts of errors.
MaxSize == 2
MaxChunk == 2
MaxTime == 1
ErrorTexts == {<<>>, <<"timeout">>}

\* DownloadProgressCallback.__init__: the fields of the object (id, filename
\* and download_id are the arguments, kept as they are) ...
NewCallback(file_size, now) ==
    [file_size |-> file_size, progress |-> 0, status |-> "downloading",
     error_message |-> None, start_time |-> now]

\* ... and the record it puts in download_progress.
NewRecord(file_size, now) ==
    [file_size |-> file_size, progress |-> 0, percentage |-> Float(0, 1),
     status |-> "downloading", start_time |-> now, estimated_time |-> NoFloat,
     speed |-> Float(0, 1), error_message |-> None, total_time |-> NoKey]

\* DownloadProgressCallback.update: the object after the call ...
CallbackUpdate(cb, size) == [cb EXCEPT !.progress = cb.progress + size]

\* ... and the record, if there is one, given the object after the call.
UpdateRecord(rec, cb, now) ==
    LET elapsed_time == now - cb.start_time
        moving == elapsed_time > 0 /\ cb.progress > 0
    IN [rec EXCEPT
          !.progress = cb.progress,
          !.percentage = IF cb.file_size > 0 THEN Round2(cb.progress * 100, cb.file_size)
                         ELSE Float(0, 1),
          !.speed = IF elapsed_time > 0 THEN Round2(cb.progress, elapsed_time) ELSE Float(0, 1),
          !.estimated_time =
              IF moving /\ cb.progress < cb.file_size
              THEN Round2((cb.file_size - cb.progress) * elapsed_time, cb.progress)
              ELSE NoFloat]

\* DownloadProgressCallback.end raises AssertionError, before it writes the
\* record, when it is told of a success and the bytes do not add up.
EndAsserts(cb, success) == success /\ cb.progress # cb.file_size

\* DownloadProgressCallback.end: the object after the call ...
CallbackEnd(cb, success, error_message) ==
    IF success THEN [cb EXCEPT !.status = "completed"]
    ELSE [cb EXCEPT !.status = "failed", !.error_message = error_message]

\* ... and the record, if there is one, given the object after the call.
EndRecord(rec, cb, success, now) ==
    [rec EXCEPT
       !.status = cb.status,
       !.progress = IF success THEN cb.file_size ELSE cb.progress,
       !.percentage = IF cb.file_size > 0
                      THEN IF success THEN Float(100, 1)
                           ELSE Float(cb.progress * 100, cb.file_size)
                      ELSE Float(0, 1),
       !.total_time = Round2(now - cb.start_time, 1),
       !.error_message = cb.error_message]

\* The registry with the record of download_id replaced, when it has one.
WithRecord(registry, download_id, rec) ==
    [d \in DOMAIN registry |-> IF d = download_id THEN rec ELSE registry[d]]

\* del download_progress[download_id]
WithoutRecord(registry, download_id) ==
    [d \in DOMAIN registry \ {download_id} |-> registry[d]]

\* The callback object of a download, and no call made on it yet.
NoCallbackCall == [fn |-> "", download_id |-> "", raised |-> FALSE]

\* time.time() gives a later reading.
TimePasses ==
    /\ host.now < MaxTime
    /\ host' = [host EXCEPT !.now = host.now + 1]
    /\ UNCHANGED <<store, last, running, written, sources, sessionVars, agentVars, scanner, downloadVars>>

\* DownloadProgressCallback(id, filename, file_size, download_id)
CbInit(download_id, file_size) ==
    /\ download_id \notin DOMAIN transfers
    /\ transfers' = [d \in DOMAIN transfers \cup {download_id} |->
                        IF d = download_id THEN NewCallback(file_size, host.now)
                        ELSE transfers[d]]
    /\ download_progress' = [d \in DOMAIN download_progress \cup {download_id} |->
                                IF d = download_id THEN NewRecord(file_size, host.now)
                                ELSE download_progress[d]]
    /\ last' = [fn |-> "__init__", download_id |-> download_id, raised |-> FALSE]
    /\ UNCHANGED <<store, running, written, sources, sessionVars, agentVars, localVars, download_lock, clients>>

\* DownloadProgressCallback.update(size)
CbUpdate(download_id, size) ==
    /\ download_id \in DOMAIN transfers
    /\ transfers[download_id].progress + size <= MaxSize + MaxChunk
    /\ \E cb \in {CallbackUpdate(transfers[download_id], size)} :
          /\ transfers' = [transfers EXCEPT ![download_id] = cb]
          /\ download_progress' =
                IF download_id \in DOMAIN download_progress
                THEN WithRecord(download_progress, download_id,
                                UpdateRecord(download_progress[download_id], cb, host.now))
                ELSE download_progress
    /\ last' = [fn |-> "update", download_id |-> download_id, raised |-> FALSE]
    /\ UNCHANGED <<store, running, written, sources, sessionVars, agentVars, localVars, download_lock, clients>>

\* DownloadProgressCallback.end(success, error_message)
CbEnd(download_id, success, error_message) ==
    /\ download_id \in DOMAIN transfers
    /\ \E cb \in {CallbackEnd(transfers[download_id], success, error_message)} :
          /\ transfers' = [transfers EXCEPT ![download_id] = cb]
          /\ download_progress' =
                IF download_id \in DOMAIN download_progress /\ ~EndAsserts(cb, success)
                THEN WithRecord(download_progress, download_id,
                                EndRecord(download_progress[download_id], cb, success, host.now))
                ELSE download_progress
          /\ last' = [fn |-> "end", download_id |-> download_id,
                      raised |-> EndAsserts(cb, success)]
    /\ UNCHANGED <<store, running, written, sources, sessionVars, agentVars, localVars, download_lock, clients>>

\* DownloadProgressCallback.fail(error_message)
CbFail(download_id, error_message) ==
    /\ CbEnd(download_id, FALSE, error_message)

\* clear_download_progress: DELETE /api/download-progress/{download_id}
CbClear(download_id) ==
    /\ download_id \in DOMAIN download_progress
    /\ download_progress' = WithoutRecord(download_progress, download_id)
    /\ last' = [fn |-> "clear", download_id |-> download_id, raised |-> FALSE]
    /\ UNCHANGED <<store, running, written, sources, sessionVars, agentVars, localVars, download_lock, transfers, clients>>

InitCallback ==
    /\ store = [x \in {} |-> None]
    /\ running = [r \in Requests |-> Idle]
    /\ written = NoWrite
    /\ sources = RegistrationOrder
    /\ last = NoCallbackCall
    /\ InitLocal
    /\ InitDownloads
    /\ InitSessions
    /\ InitAgent

CallbackNext ==
    \/ TimePasses
    \/ \E d \in DownloadIds, file_size \in 0..MaxSize : CbInit(d, file_size)
    \/ \E d \in DownloadIds, size \in 0..MaxChunk : CbUpdate(d, size)
    \/ \E d \in DownloadIds : CbEnd(d, TRUE, None)
    \/ \E d \in DownloadIds, e \in ErrorTexts : CbFail(d, Str(e))
    \/ \E d \in DownloadIds : CbClear(d)

SpecCallback == InitCallback /\ [][CallbackNext]_vars

Final == {"completed", "failed"}

\* C27: once end or fail has given the record of a download a final status,
\* a further update leaves its progress, percentage, speed and estimated_time
\* as they are.
C27_UpdateAfterFinishIgnored ==
    [][\A d \in DOMAIN download_progress \cap DOMAIN download_progress' :
          (download_progress[d].status \in Final /\ last'.fn = "update") =>
             /\ download_progress'[d].progress = download_progress[d].progress
             /\ download_progress'[d].percentage = download_progress[d].percentage
             /\ download_progress'[d].speed = download_progress[d].speed
             /\ download_progress'[d].estimated_time = download_progress[d].estimated_time]_vars

\* C28: a record is made with the status downloading, and a status that is
\* final never changes again, whatever update, end and fail calls follow.
C28_StatusChangesOnce ==
    [][/\ \A d \in DOMAIN download_progress' \ DOMAIN download_progress :
             download_progress'[d].status = "downloading"
       /\ \A d \in DOMAIN download_progress \cap DOMAIN download_progress' :
             /\ download_progress[d].status \in Final =>
                   download_progress'[d].status = download_progress[d].status
             /\ download_progress'[d].status \in Final \cup {"downloading"}]_vars

\* ------------------------------------------ the download route and its task

\* The files one snapshot_download may fetch.
MaxFiles == 2

\* _PerFileProgress.__init__: the tracker of one file.
NewTracker(fsize, now) ==
    [file_size |-> fsize, progress |-> 0, last_update_time |-> now, last_downloaded |-> 0,
     now |-> now, open |-> TRUE]
NoTracker == [file_size |-> 0, progress |-> 0, last_update_time |-> 0, last_downloaded |-> 0,
              now |-> 0, open |-> FALSE]

\* One assignment dp[field] = value made while download_lock is held.
IntWrite(field, n) == [field |-> field, int |-> n, float |-> NoFloat]
FloatWrite(field, x) == [field |-> field, int |-> 0, float |-> x]
ApplyWrite(rec, w) ==
    IF w.field = "progress" THEN [rec EXCEPT !.progress = w.int]
    ELSE IF w.field = "file_size" THEN [rec EXCEPT !.file_size = w.int]
    ELSE IF w.field = "percentage" THEN [rec EXCEPT !.percentage = w.float]
    ELSE [rec EXCEPT !.speed = w.float]
RECURSIVE ApplyWrites(_, _)
ApplyWrites(rec, ws) ==
    IF ws = <<>> THEN rec ELSE ApplyWrites(ApplyWrite(rec, Head(ws)), Tail(ws))

\* _PerFileProgress.update, inside "with download_lock": its assignments to
\* the record, in order; tr is the tracker with the new bytes added and the
\* new reading of the time.
PerFileUpdateWrites(tr) ==
    LET elapsed == tr.now - tr.last_update_time
        delta == tr.progress - tr.last_downloaded
    IN <<IntWrite("progress", tr.progress)>>
       \o (IF tr.file_size > 0
           THEN <<FloatWrite("percentage", Round2(tr.progress * 100, tr.file_size))>>
           ELSE <<>>)
       \o <<FloatWrite("speed", IF elapsed > 0 THEN Round2(delta, elapsed)
                                ELSE Round2(delta * 1000000, 1))>>

\* _PerFileProgress.end, inside "with download_lock".
PerFileEndWrites(tr) ==
    IF tr.file_size > 0
    THEN <<IntWrite("progress", tr.file_size), FloatWrite("percentage", Float(100, 1))>>
    ELSE <<>>

\* A task that only logs the error of a transfer that raised.
TaskFinishLogsOnly(rec, cb, outcome, now) ==
    IF outcome.kind = "returned"
    THEN EndRecord(rec, CallbackEnd(cb, TRUE, None), TRUE, now)
    ELSE rec

\* download_task after the transfer: progress_callback.end(success=True) when
\* snapshot_download has returned, progress_callback.fail(str(e)) when it, or
\* the end, has raised; the record after it.
TaskFinishRecord(rec, cb, outcome, now) ==
    IF outcome.kind = "returned" /\ ~EndAsserts(CallbackEnd(cb, TRUE, None), TRUE)
    THEN EndRecord(rec, CallbackEnd(cb, TRUE, None), TRUE, now)
    ELSE LET text == IF outcome.kind = "returned" THEN <<"Download incomplete">>
                     ELSE outcome.text
         IN EndRecord(rec, CallbackEnd(cb, FALSE, Str(text)), FALSE, now)

\* A task of the route: its callback object, where its thread or its
\* continuation is, the tracker of the file being fetched, the assignments
\* its thread has still to make under the lock, and the record as it was when
\* the thread took the lock.
NewTask(now) ==
    [cb |-> NewCallback(0, now), pc |-> "transfer", outcome |-> [kind |-> "", text |-> <<>>],
     nfiles |-> 0, file |-> NoTracker, pending |-> <<>>, before |-> {}]

\* A client of GET /api/download-progress/{download_id}.
Clients == {"c1"}
IdleClient == [pc |-> "idle", download_id |-> "", found |-> FALSE, whole |-> TRUE]

\* The event loop runs one handler at a time: no handler starts while
\* another is between two of its steps.
LoopFree == \A c \in DOMAIN clients : clients[c].pc # "got"

\* The body of a POST /api/download-model: the required fields of it that
\* are there and not empty; all of them, or all but one.
RequiredFields == {"id", "model_id", "model_type"}
DownloadRequests == {RequiredFields} \cup {RequiredFields \ {f} : f \in RequiredFields}

\* A route that asks for the id alone.
MissingParameterIdOnly(req) ==
    IF "id" \notin req THEN "Missing required parameter: id" ELSE ""

\* download_model, its tests of the required parameters: the message of the
\* first that fails, or "".
MissingParameter(req) ==
    IF "id" \notin req THEN "Missing required parameter: id"
    ELSE IF "model_id" \notin req THEN "Missing required parameter: model_id"
    ELSE IF "model_type" \notin req THEN "Missing required parameter: model_type"
    ELSE ""

NoRouteCall == [fn |-> "", req |-> {}, success |-> FALSE, message |-> "", download_id |-> ""]

\* POST /api/download-model without id, model_id or model_type.
DownloadRouteRejects(req) ==
    /\ LoopFree
    /\ MissingParameter(req) # ""
    /\ last' = [fn |-> "download_model", req |-> req, success |-> FALSE,
                message |-> MissingParameter(req), download_id |-> ""]
    /\ UNCHANGED <<store, running, written, sources, sessionVars, agentVars, localVars, downloadVars>>

\* POST /api/download-model: the record is made and the task started.
DownloadRoute(download_id, req) ==
    /\ LoopFree
    /\ MissingParameter(req) = ""
    /\ download_lock = ""
    /\ download_id \notin DOMAIN transfers
    /\ transfers' = [d \in DOMAIN transfers \cup {download_id} |->
                        IF d = download_id THEN NewTask(host.now) ELSE transfers[d]]
    /\ download_progress' = [d \in DOMAIN download_progress \cup {download_id} |->
                                IF d = download_id THEN NewRecord(0, host.now)
                                ELSE download_progress[d]]
    /\ last' = [fn |-> "download_model", req |-> req, success |-> TRUE,
                message |-> "Download started", download_id |-> download_id]
    /\ UNCHANGED <<store, running, written, sources, sessionVars, agentVars, localVars, download_lock, clients>>

\* The thread of the transfer takes the lock, with these assignments to make.
TakeLock(download_id, tracker, writes) ==
    /\ download_lock = ""
    /\ download_lock' = download_id
    /\ transfers' = [transfers EXCEPT ![download_id] =
          [@ EXCEPT !.file = tracker, !.pc = "locked",
                    !.pending = IF download_id \in DOMAIN download_progress THEN writes ELSE <<>>,
                    !.before = IF download_id \in DOMAIN download_progress
                               THEN {download_progress[download_id]} ELSE {}]]
    /\ UNCHANGED <<store, last, running, written, sources, sessionVars, agentVars, localVars, download_progress, clients>>

\* ProgressWrapper.__call__(file_name, file_size): a file begins.
FileBegins(download_id, fsize) ==
    /\ download_id \in DOMAIN transfers
    /\ transfers[download_id].pc = "transfer"
    /\ ~transfers[download_id].file.open
    /\ transfers[download_id].nfiles < MaxFiles
    /\ TakeLock(download_id, NewTracker(fsize, host.now), <<IntWrite("file_size", fsize)>>)

\* _PerFileProgress.update(size)
FileUpdate(download_id, size) ==
    /\ download_id \in DOMAIN transfers
    /\ transfers[download_id].pc = "transfer"
    /\ transfers[download_id].file.open
    /\ transfers[download_id].file.progress + size <=
          (IF transfers[download_id].file.file_size > 0
           THEN transfers[download_id].file.file_size ELSE MaxChunk)
    /\ \E tr \in {[transfers[download_id].file EXCEPT !.progress = @ + size, !.now = host.now]} :
          TakeLock(download_id, tr, PerFileUpdateWrites(tr))

\* _PerFileProgress.end()
FileEnds(download_id) ==
    /\ download_id \in DOMAIN transfers
    /\ transfers[download_id].pc = "transfer"
    /\ transfers[download_id].file.open
    /\ transfers[download_id].file.progress >= transfers[download_id].file.file_size
    /\ TakeLock(download_id, [transfers[download_id].file EXCEPT !.open = FALSE],
                PerFileEndWrites(transfers[download_id].file))

\* The thread makes its next assignment to the record.
ThreadWrites(download_id) ==
    /\ download_id \in DOMAIN transfers
    /\ transfers[download_id].pc = "locked"
    /\ transfers[download_id].pending # <<>>
    /\ download_progress' = WithRecord(download_progress, download_id,
          ApplyWrite(download_progress[download_id], Head(transfers[download_id].pending)))
    /\ transfers' = [transfers EXCEPT ![download_id].pending = Tail(@)]
    /\ UNCHANGED <<store, last, running, written, sources, sessionVars, agentVars, localVars, download_lock, clients>>

\* The thread leaves "with download_lock"; an update then notes its time and
\* bytes, a file that has ended is counted.
ThreadUnlocks(download_id) ==
    /\ download_id \in DOMAIN transfers
    /\ transfers[download_id].pc = "locked"
    /\ transfers[download_id].pending = <<>>
    /\ download_lock' = ""
    /\ LET t == transfers[download_id]
       IN transfers' = [transfers EXCEPT ![download_id] =
            [t EXCEPT !.pc = "transfer", !.before = {},
                      !.nfiles = IF t.file.open THEN t.nfiles ELSE t.nfiles + 1,
                      !.file = IF t.file.open
                               THEN [t.file EXCEPT !.last_update_time = t.file.now,
                                                   !.last_downloaded = t.file.progress]
                               ELSE NoTracker]]
    /\ UNCHANGED <<store, last, running, written, sources, sessionVars, agentVars, localVars, download_progress, clients>>

\* snapshot_download returns: no file is left open.
TransferReturns(download_id) ==
    /\ download_id \in DOMAIN transfers
    /\ transfers[download_id].pc = "transfer"
    /\ ~transfers[download_id].file.open
    /\ transfers' = [transfers EXCEPT ![download_id] =
          [@ EXCEPT !.pc = "ended", !.outcome = [kind |-> "returned", text |-> <<>>]]]
    /\ UNCHANGED <<store, last, running, written, sources, sessionVars, agentVars, localVars, download_progress,
                   download_lock, clients>>

\* The import of modelscope or snapshot_download raises an Exception.
TransferRaises(download_id, text) ==
    /\ download_id \in DOMAIN transfers
    /\ transfers[download_id].pc = "transfer"
    /\ transfers' = [transfers EXCEPT ![download_id] =
          [@ EXCEPT !.pc = "ended", !.outcome = [kind |-> "raised", text |-> text]]]
    /\ UNCHANGED <<store, last, running, written, sources, sessionVars, agentVars, localVars, download_progress,
                   download_lock, clients>>

\* An end that assigns download_progress[download_id] whether or not the
\* record is there.
TaskFinishRegistryCreates(registry, download_id, cb, outcome, now) ==
    LET rec == IF download_id \in DOMAIN registry THEN registry[download_id]
               ELSE NewRecord(cb.file_size, cb.start_time)
    IN [d \in DOMAIN registry \cup {download_id} |->
          IF d = download_id THEN TaskFinishRecord(rec, cb, outcome, now) ELSE registry[d]]

\* DownloadProgressCallback.end, "if self.download_id in download_progress":
\* the registry after the last call of download_task.
TaskFinishRegistry(registry, download_id, cb, outcome, now) ==
    IF download_id \in DOMAIN registry
    THEN WithRecord(registry, download_id,
                    TaskFinishRecord(registry[download_id], cb, outcome, now))
    ELSE registry

\* download_task goes on in the event loop, after the await of the transfer.
TaskFinish(download_id) ==
    /\ LoopFree
    /\ download_lock = ""
    /\ download_id \in DOMAIN transfers
    /\ transfers[download_id].pc = "ended"
    /\ transfers' = [transfers EXCEPT ![download_id].pc = "done"]
    /\ download_progress' =
          TaskFinishRegistry(download_progress, download_id, transfers[download_id].cb,
                             transfers[download_id].outcome, host.now)
    /\ UNCHANGED <<store, last, running, written, sources, sessionVars, agentVars, localVars, download_lock, clients>>

\* get_download_progress, "with download_lock": the handler takes the dict
\* of the record, or None, out of the registry.
PollGets(c, download_id) ==
    /\ LoopFree
    /\ download_lock = ""
    /\ clients' = [x \in DOMAIN clients \cup {c} |->
                      IF x = c THEN [IdleClient EXCEPT !.pc = "got", !.download_id = download_id]
                      ELSE clients[x]]
    /\ UNCHANGED <<store, last, running, written, sources, sessionVars, agentVars, localVars, download_progress,
                   download_lock, transfers>>

\* The records of a download that a reader holding the lock could find: the
\* record as it is when the lock is free, and else the record as it was when
\* the thread took the lock and as it will be when the thread gives it back.
Stable(download_id) ==
    IF download_lock = download_id
    THEN transfers[download_id].before
         \cup {ApplyWrites(download_progress[download_id], transfers[download_id].pending)}
    ELSE {download_progress[download_id]}

\* get_download_progress, after the lock: json_response reads the dict, or
\* answers that there is none; whether what it reads is a record that a
\* reader holding the lock could have found is noted.
PollResponds(c) ==
    /\ c \in DOMAIN clients
    /\ clients[c].pc = "got"
    /\ LET d == clients[c].download_id
           there == d \in DOMAIN download_progress
       IN clients' = [clients EXCEPT ![c] =
            [@ EXCEPT !.pc = "done", !.found = there,
                      !.whole = there => download_progress[d] \in Stable(d)]]
    /\ UNCHANGED <<store, last, running, written, sources, sessionVars, agentVars, localVars, download_progress,
                   download_lock, transfers>>

\* list_downloads: the ids GET /api/download-progress answers with.
ListDownloads(registry) == DOMAIN registry

\* clear_download_progress: DELETE /api/download-progress/{download_id}
ClearDownloadProgress(download_id) ==
    /\ LoopFree
    /\ download_lock = ""
    /\ download_id \in DOMAIN download_progress
    /\ download_progress' = WithoutRecord(download_progress, download_id)
    /\ UNCHANGED <<store, last, running, written, sources, sessionVars, agentVars, localVars, download_lock,
                   transfers, clients>>

InitDownload ==
    /\ store = [x \in {} |-> None]
    /\ running = [r \in Requests |-> Idle]
    /\ written = NoWrite
    /\ sources = RegistrationOrder
    /\ last = NoRouteCall
    /\ InitLocal
    /\ InitDownloads
    /\ InitSessions
    /\ InitAgent

DownloadNext ==
    \/ TimePasses
    \/ \E req \in DownloadRequests : DownloadRouteRejects(req)
    \/ \E d \in DownloadIds, req \in DownloadRequests : DownloadRoute(d, req)
    \/ \E d \in DownloadIds, fsize \in 0..MaxSize : FileBegins(d, fsize)
    \/ \E d \in DownloadIds, size \in 1..MaxChunk : FileUpdate(d, size)
    \/ \E d \in DownloadIds : FileEnds(d)
    \/ \E d \in DownloadIds : ThreadWrites(d)
    \/ \E d \in DownloadIds : ThreadUnlocks(d)
    \/ \E d \in DownloadIds : TransferReturns(d)
    \/ \E d \in DownloadIds, e \in ErrorTexts : TransferRaises(d, e)
    \/ \E d \in DownloadIds : TaskFinish(d)
    \/ \E c \in Clients, d \in DownloadIds : PollGets(c, d)
    \/ \E c \in Clients : PollResponds(c)
    \/ \E d \in DownloadIds : ClearDownloadProgress(d)

SpecDownload == InitDownload /\ [][DownloadNext]_vars

\* The event loop runs every handler and continuation that is ready, and a
\* handler that has begun goes on to its end.
SpecDownloadLive ==
    /\ SpecDownload
    /\ \A d \in DownloadIds : SF_vars(TaskFinish(d))
    /\ \A c \in Clients : WF_vars(PollResponds(c))

\* C26: while the status of a record is downloading its percentage never
\* goes down, from one state of the record to the next.
C26_PercentageNeverDecreases ==
    [][\A d \in DOMAIN download_progress \cap DOMAIN download_progress' :
          (download_progress[d].status = "downloading"
           /\ download_progress'[d].status = "downloading") =>
             ~FloatLess(download_progress'[d].percentage, download_progress[d].percentage)]_vars

Ended(d) == d \in DOMAIN transfers /\ transfers[d].pc \in {"ended", "done"}
Stays(d) == d \in DOMAIN download_progress

\* C29: once the transfer of a download has ended, its record, unless it is
\* deleted, comes to a final status and is nowhere else; the status is
\* completed if the transfer returned, and failed, with the text of the error
\* as error_message, if it raised.
C29_EndedTransferIsFinalised ==
    /\ \A d \in DownloadIds :
          (Ended(d) /\ Stays(d)) ~> (~Stays(d) \/ download_progress[d].status \in Final)
    /\ [](\A d \in DownloadIds :
            (Stays(d) /\ d \in DOMAIN transfers) =>
               /\ transfers[d].pc = "done" => download_progress[d].status \in Final
               /\ download_progress[d].status = "completed" =>
                     transfers[d].outcome.kind = "returned"
               /\ download_progress[d].status = "failed" =>
                     /\ transfers[d].outcome.kind = "raised"
                     /\ download_progress[d].error_message = Str(transfers[d].outcome.text))

\* A transfer that raised after a file had begun has left a failed record
\* with the text of its error.
C29_Witness ==
    \E d \in DOMAIN download_progress \cap DOMAIN transfers :
        /\ transfers[d].pc = "done"
        /\ transfers[d].outcome = [kind |-> "raised", text |-> <<"timeout">>]
        /\ download_progress[d].status = "failed"
        /\ download_progress[d].error_message = Str(<<"timeout">>)
        /\ download_progress[d].file_size > 0

\* C30: what a poll reads of a record is the record as it was when no
\* update was under way: as it was before the update, or as it is after it.
C30_PollSeesNoHalfUpdate ==
    \A c \in DOMAIN clients :
        (clients[c].pc = "done" /\ clients[c].found) => clients[c].whole

Deleted(d) == d \in DOMAIN transfers /\ d \notin ListDownloads(download_progress)

\* C31: deleting the record of a download takes the record out of the
\* registry and leaves the transfer as it is; the id of a deleted download is
\* never again in the registry or in the list of downloads, whatever
\* callbacks of the transfer follow.
C31_DeletedRecordStaysDeleted ==
    [][\A d \in DownloadIds :
          /\ Deleted(d) => Deleted(d)'
          /\ (~Deleted(d) /\ Deleted(d)') =>
                /\ transfers' = transfers
                /\ download_progress' = WithoutRecord(download_progress, d)]_vars

\* A transfer whose record was deleted has gone on to its end, and its task
\* has made its last call.
C31_Witness ==
    \E d \in DownloadIds :
        /\ Deleted(d)
        /\ transfers[d].pc = "done"
        /\ transfers[d].nfiles > 0

\* C32: a request to the download route that lacks id, model_id or
\* model_type is answered with a failure and its message; it makes no record,
\* no download id and no task.
C32_RejectedRequestHasNoEffect ==
    [][(last' # last /\ last'.fn = "download_model"
        /\ RequiredFields \ last'.req # {}) =>
          /\ ~last'.success
          /\ last'.message # ""
          /\ last'.download_id = ""
          /\ UNCHANGED downloadVars]_vars

\* A request with id and model_id and no model_type was rejected while a
\* download was under way.
C32_Witness ==
    /\ last.fn = "download_model" /\ last.req = {"id", "model_id"}
    /\ ~last.success
    /\ last.message = "Missing required parameter: model_type"
    /\ \E d \in DOMAIN download_progress : download_progress[d].status = "downloading"

\* ------------------------------------- more properties of the message memory

\* C33: a call of message_memory_optimize with a list that is not empty
\* never returns an empty list, whatever earlier calls have stored.
C33_NonEmptyInputNonEmptyView ==
    (last.op = "optimize" /\ last.msgs # <<>>) => last.ret # <<>>

\* The context message that stands for the summary.
IsContext(m) ==
    /\ m.role = "user"
    /\ m.content.v # <<>>
    /\ Head(m.content.v) = "[Context from previous conversation]: "

ContextCount(ms) == Cardinality({i \in DOMAIN ms : IsContext(ms[i])})
VerbatimCount(ms) == Cardinality({i \in DOMAIN ms : ~IsContext(ms[i])})

C36_PagesHoldTotal ==
    (last.op = "reply" /\ last.call.fn = "page_through") =>
        /\ Len(last.out.models) = last.out.total
        /\ \A s \in Range(sources) : \A k \in 1..Len(last.call.catalogs[s]) :
              \E i \in 1..Len(last.out.models) :
                  last.out.models[i].source = s /\ last.out.models[i].id = k

\* C37: an id for which the gateway picks an adapter is an id that this
\* adapter's validate_model_id accepts.
C37_InferredAdapterAcceptsId ==
    (last.op = "reply" /\ last.call.fn = "validate_model_id") =>
        \A k \in 1..Len(last.out.asked) : last.out.accepts[last.out.asked[k]]

\* ------------------------------------ more properties of the download route

\* C35: a record with status completed and a file_size above 0 has its
\* progress at file_size and its percentage at 100, and the step that
\* completes a download lowers neither progress nor percentage.
C35_CompletedMeansAllBytes ==
    [][\A d \in DOMAIN download_progress \cap DOMAIN download_progress' :
          LET before == download_progress[d]
              after == download_progress'[d]
          IN /\ (after.status = "completed" /\ after.file_size > 0) =>
                   /\ after.progress = after.file_size
                   /\ after.percentage.n = 100 * after.percentage.d
             /\ (before.status = "downloading" /\ after.status = "completed") =>
                   /\ after.progress >= before.progress
                   /\ ~FloatLess(after.percentage, before.percentage)]_vars

\* ------------------------------------------------------ local session manager

\* Session identifiers are numbers: 0 is None or the empty string (both false
\* in `if session_id and ...`), the n-th result of uuid.uuid4() is n, and
\* ForeignId is a string that uuid4 never produced.
NoSessionId == 0
ForeignId == -1
MaxUuids == 2

\* The clock moves in hours and is read in seconds.
SecondsPerHour == 3600
MaxHours == 2
MaxAgeHours == 1

\* The threads that call get_or_create_session and the thread that calls
\* cleanup_expired_sessions.
SessionThreads == {"t1", "t2"}
Janitor == "janitor"

IdleThread == [pc |-> "idle", given |-> NoSessionId, session_id |-> NoSessionId,
               current_time |-> 0, cutoff_time |-> 0, found |-> FALSE, t0 |-> 0,
               deleted_count |-> 0]

NoSessionCall == [fn |-> "", given |-> NoSessionId, ret |-> NoSessionId, found |-> FALSE,
                  exists |-> FALSE, elapsed |-> 0]

\* The identifiers a caller can pass: none, a foreign string, or an identifier
\* that uuid4 has handed out before.
GivenIds == {NoSessionId, ForeignId} \cup 1..issued

\* get_or_create_session is called: `session_id and ...` goes to
\* session_exists for a non-empty id and to create_session otherwise.
GetOrCreateSession(t, given) ==
    /\ threads[t].pc = "idle"
    /\ threads' = [threads EXCEPT ![t] = [IdleThread EXCEPT
            !.pc = IF given # NoSessionId THEN "get_session" ELSE "create_session",
            !.given = given, !.t0 = clock]]
    /\ UNCHANGED <<sessions, session_lock, clock, issued>>
    /\ UNCHANGED <<store, last, running, written, sources, localVars, downloadVars, agentVars>>

\* `with self._lock:` of get_session, update_session_activity, create_session
\* and cleanup_expired_sessions: the thread takes the lock when it is free.
SessionLockAcquire(t) ==
    /\ threads[t].pc \in {"get_session", "update_session_activity", "insert", "delete"}
    /\ session_lock = ""
    /\ session_lock' = t
    /\ UNCHANGED <<sessions, threads, clock, issued>>
    /\ UNCHANGED <<store, last, running, written, sources, localVars, downloadVars, agentVars>>

\* session_exists -> get_session: SELECT ... WHERE session_id = ?, under the
\* lock; the lock is released when the method returns.
SessionExists(t) ==
    /\ threads[t].pc = "get_session"
    /\ session_lock = t
    /\ LET found == threads[t].given \in DOMAIN sessions
       IN threads' = [threads EXCEPT ![t].found = found,
                         ![t].pc = IF found THEN "update_session_activity" ELSE "create_session"]
    /\ session_lock' = ""
    /\ UNCHANGED <<sessions, clock, issued>>
    /\ UNCHANGED <<store, last, running, written, sources, localVars, downloadVars, agentVars>>

\* update_session_activity: UPDATE ... SET last_activity = time.time() WHERE
\* session_id = ? changes the row if there is one; get_or_create_session then
\* returns the given id.
UpdateSessionActivity(t) ==
    /\ threads[t].pc = "update_session_activity"
    /\ session_lock = t
    /\ sessions' = IF threads[t].given \in DOMAIN sessions
                   THEN [sessions EXCEPT ![threads[t].given] = clock]
                   ELSE sessions
    /\ threads' = [threads EXCEPT ![t].pc = "return", ![t].session_id = threads[t].given]
    /\ session_lock' = ""
    /\ UNCHANGED <<clock, issued>>
    /\ UNCHANGED <<store, last, running, written, sources, localVars, downloadVars, agentVars>>

\* create_session, before the lock: session_id = str(uuid.uuid4()) and
\* current_time = time.time().
CreateSession(t) ==
    /\ threads[t].pc = "create_session"
    /\ issued < MaxUuids
    /\ issued' = issued + 1
    /\ threads' = [threads EXCEPT ![t].pc = "insert", ![t].session_id = issued + 1,
                                  ![t].current_time = clock]
    /\ UNCHANGED <<sessions, session_lock, clock>>
    /\ UNCHANGED <<store, last, running, written, sources, localVars, downloadVars, agentVars>>

\* create_session, under the lock: INSERT INTO sessions.
InsertSession(t) ==
    /\ threads[t].pc = "insert"
    /\ session_lock = t
    /\ sessions' = (threads[t].session_id :> threads[t].current_time) @@ sessions
    /\ threads' = [threads EXCEPT ![t].pc = "return"]
    /\ session_lock' = ""
    /\ UNCHANGED <<clock, issued>>
    /\ UNCHANGED <<store, last, running, written, sources, localVars, downloadVars, agentVars>>

\* get_or_create_session returns: the caller has the identifier.
GetOrCreateReturns(t) ==
    /\ threads[t].pc = "return"
    /\ last' = [fn |-> "get_or_create_session", given |-> threads[t].given,
                ret |-> threads[t].session_id, found |-> threads[t].found,
                exists |-> threads[t].session_id \in DOMAIN sessions,
                elapsed |-> clock - threads[t].t0]
    /\ threads' = [threads EXCEPT ![t] = IdleThread]
    /\ UNCHANGED <<sessions, session_lock, clock, issued>>
    /\ UNCHANGED <<store, running, written, sources, localVars, downloadVars, agentVars>>

\* cleanup_expired_sessions, before the lock: cutoff_time.
CleanupExpiredSessions(max_age_hours) ==
    /\ threads[Janitor].pc = "idle"
    /\ threads' = [threads EXCEPT ![Janitor] = [IdleThread EXCEPT !.pc = "delete",
            !.cutoff_time = clock - max_age_hours * SecondsPerHour]]
    /\ UNCHANGED <<sessions, session_lock, clock, issued>>
    /\ UNCHANGED <<store, last, running, written, sources, localVars, downloadVars, agentVars>>

\* cleanup_expired_sessions, under the lock: DELETE ... WHERE last_activity <
\* cutoff_time; it returns the number of rows deleted.
DeleteExpired ==
    /\ threads[Janitor].pc = "delete"
    /\ session_lock = Janitor
    /\ LET kept == {x \in DOMAIN sessions : ~(sessions[x] < threads[Janitor].cutoff_time)}
       IN /\ sessions' = [x \in kept |-> sessions[x]]
          /\ threads' = [threads EXCEPT ![Janitor].pc = "idle",
                 ![Janitor].deleted_count = Cardinality(DOMAIN sessions) - Cardinality(kept)]
    /\ session_lock' = ""
    /\ UNCHANGED <<clock, issued>>
    /\ UNCHANGED <<store, last, running, written, sources, localVars, downloadVars, agentVars>>

\* An hour passes.
HourPasses ==
    /\ clock < MaxHours * SecondsPerHour
    /\ clock' = clock + SecondsPerHour
    /\ UNCHANGED <<sessions, session_lock, threads, issued>>
    /\ UNCHANGED <<store, last, running, written, sources, localVars, downloadVars, agentVars>>

InitSession ==
    /\ store = [x \in {} |-> None]
    /\ last = NoSessionCall
    /\ running = [r \in {} |-> Idle]
    /\ written = NoWrite
    /\ sources = RegistrationOrder
    /\ InitLocal
    /\ InitDownloads
    /\ sessions = [x \in {} |-> 0]
    /\ session_lock = ""
    /\ threads = [t \in SessionThreads \cup {Janitor} |-> IdleThread]
    /\ clock = 0
    /\ issued = 0
    /\ InitAgent

SessionNext ==
    \/ \E t \in SessionThreads : \E given \in GivenIds : GetOrCreateSession(t, given)
    \/ \E t \in SessionThreads \cup {Janitor} : SessionLockAcquire(t)
    \/ \E t \in SessionThreads : SessionExists(t)
    \/ \E t \in SessionThreads : UpdateSessionActivity(t)
    \/ \E t \in SessionThreads : CreateSession(t)
    \/ \E t \in SessionThreads : InsertSession(t)
    \/ \E t \in SessionThreads : GetOrCreateReturns(t)
    \/ \E max_age_hours \in 1..MaxAgeHours : CleanupExpiredSessions(max_age_hours)
    \/ DeleteExpired
    \/ HourPasses

SpecSession == InitSession /\ [][SessionNext]_vars

\* C38: when get_or_create_session returns, the identifier it returns is the
\* identifier of a session in the table: the given one if the lookup found it,
\* otherwise a new one that differs from the given one; checked for the calls
\* during which the clock did not move, with cleanup_expired_sessions running
\* in another thread.
C38_ReturnedSessionExists ==
    (last.fn = "get_or_create_session" /\ last.elapsed = 0) =>
        /\ last.exists
        /\ last.found => last.ret = last.given
        /\ ~last.found => last.ret # last.given

\* ------------------------------------------------- the agent's event stream

MaxEvents == 5
MaxText == 2

\* The names a tool_call_item carries; an item whose raw_item has no name is
\* queued as 'unknown_tool' (getattr's default).
NamedTools == {"recall_workflow", "gen_workflow"}
UnknownTool == "unknown_tool"

\* What str(event.item.output) can be: no JSON ("raw"), a JSON object with
\* neither ext nor text ("plain"), one with a workflow_update in ext ("ext"),
\* one with a text that parses ("text").
ToolOutputs == {"raw", "plain", "ext", "text"}

\* tool_call_queue.pop(0): the name at the front and the queue without it.
ToolCallQueuePopLast(queue) ==
    [tool_name |-> queue[Len(queue)], rest |-> SubSeq(queue, 1, Len(queue) - 1)]

ToolCallQueuePop(queue) == [tool_name |-> Head(queue), rest |-> Tail(queue)]

\* raw_response_event with a ResponseTextDeltaEvent: the text grows by the
\* delta and the new text is yielded when it is longer than the last one
\* yielded.
TextDelta(delta) ==
    /\ agent.current_text + delta <= MaxText
    /\ agent' = IF delta > 0
                THEN [agent EXCEPT !.current_text = agent.current_text + delta,
                        !.last_yield_length =
                            IF agent.current_text + delta > agent.last_yield_length
                            THEN agent.current_text + delta ELSE agent.last_yield_length]
                ELSE agent
    /\ agent' # agent
    /\ UNCHANGED stream
    /\ UNCHANGED <<store, last, running, written, sources, localVars, downloadVars, sessionVars>>

\* run_item_stream_event with a tool_call_item: the name goes to the back of
\* the queue.
ToolCallItem(tool_name) ==
    /\ Len(stream) < MaxEvents
    /\ agent' = [agent EXCEPT !.tool_call_queue = Append(agent.tool_call_queue, tool_name)]
    /\ stream' = Append(stream, [type |-> "tool_call_item", tool_name |-> tool_name])
    /\ UNCHANGED <<store, last, running, written, sources, localVars, downloadVars, sessionVars>>

\* run_item_stream_event with a tool_call_output_item: the output is given the
\* name at the front of the queue, or 'unknown_tool' when the queue is empty;
\* a workflow update in ext is kept, and the result is stored under the name
\* when the output has a text or is no JSON.
ToolCallOutputItem(output) ==
    /\ Len(stream) < MaxEvents
    /\ \E popped \in {IF agent.tool_call_queue # <<>>
                      THEN ToolCallQueuePop(agent.tool_call_queue)
                      ELSE [tool_name |-> UnknownTool, rest |-> <<>>]} :
          /\ agent' = [agent EXCEPT
                !.tool_call_queue = popped.rest,
                !.workflow_update_ext = IF output = "ext" THEN TRUE ELSE @,
                !.tool_results = IF output \in {"text", "raw"}
                                 THEN (popped.tool_name :> output) @@ @
                                 ELSE @]
          /\ stream' = Append(stream, [type |-> "tool_call_output_item",
                                       tool_name |-> popped.tool_name])
    /\ UNCHANGED <<store, last, running, written, sources, localVars, downloadVars, sessionVars>>

InitAgentLoop ==
    /\ store = [x \in {} |-> None]
    /\ last = NoCall
    /\ running = [r \in {} |-> Idle]
    /\ written = NoWrite
    /\ sources = RegistrationOrder
    /\ InitLocal
    /\ InitDownloads
    /\ InitSessions
    /\ InitAgent

AgentNext ==
    \/ \E delta \in 0..1 : TextDelta(delta)
    \/ \E tool_name \in NamedTools \cup {UnknownTool} : ToolCallItem(tool_name)
    \/ \E output \in ToolOutputs : ToolCallOutputItem(output)

SpecAgent == InitAgentLoop /\ [][AgentNext]_vars

\* The tool calls among the first k events, in order.
CallsUpTo(k) == SelectSeq(SubSeq(stream, 1, k), LAMBDA e : e.type = "tool_call_item")

\* How many of the outputs among the first k events came while a call was
\* waiting: an output is matched when more calls than matched outputs came
\* before it.
RECURSIVE MatchedUpTo(_)
MatchedUpTo(k) ==
    IF k = 0 THEN 0
    ELSE LET m == MatchedUpTo(k - 1)
         IN IF stream[k].type = "tool_call_output_item" /\ Len(CallsUpTo(k - 1)) > m
            THEN m + 1 ELSE m

\* C39: every tool output is attributed to the oldest tool call that no
\* earlier output was attributed to, or to 'unknown_tool' when there is none,
\* and the calls that wait are the calls no output was attributed to, in the
\* order they came: a call is matched by at most one output.
C39_OutputsMatchCallsInOrder ==
    /\ \A k \in 1..Len(stream) :
          stream[k].type = "tool_call_output_item" =>
              LET m == MatchedUpTo(k - 1)
                  calls == CallsUpTo(k - 1)
              IN stream[k].tool_name =
                     IF Len(calls) > m THEN calls[m + 1].tool_name ELSE UnknownTool
    /\ LET calls == CallsUpTo(Len(stream))
           m == MatchedUpTo(Len(stream))
       IN agent.tool_call_queue = [i \in 1..(Len(calls) - m) |-> calls[m + i].tool_name]

\* Two calls were followed by three outputs: the first two went to the calls
\* in the order of the calls, the third to 'unknown_tool'.
C39_Witness ==
    /\ Len(stream) = 5
    /\ stream[1] = [type |-> "tool_call_item", tool_name |-> "recall_workflow"]
    /\ stream[2] = [type |-> "tool_call_item", tool_name |-> "gen_workflow"]
    /\ stream[3] = [type |-> "tool_call_output_item", tool_name |-> "recall_workflow"]
    /\ stream[4] = [type |-> "tool_call_output_item", tool_name |-> "gen_workflow"]
    /\ stream[5] = [type |-> "tool_call_output_item", tool_name |-> UnknownTool]
====
